---- MODULE Spec2Model ----
(***************************************************************************)
(* Model of the training-data pipeline of src/training/generate_data.py:   *)
(* label canonicalization and validation, deduplication, the deterministic *)
(* split, and main's combine / dedup / validate / split / save sequence.   *)
(*                                                                         *)
(* A Python str is a sequence of one-character strings.                    *)
(***************************************************************************)
EXTENDS Integers, Sequences, FiniteSets, TLC

VARIABLES
    \* harness of sanitize_branch_name / is_valid_branch_name
    sp,             \* position of the harness
    raw,            \* the string handed to the function
    out,            \* sanitize_branch_name(raw)
    out2,           \* sanitize_branch_name(out)
    ok,             \* result of is_valid_branch_name
    \* harness of dedup_examples
    dp,             \* position of the harness
    dex,            \* the list handed to dedup_examples
    unique,         \* dedup_examples(dex)
    \* harness of split_dataset
    spl,            \* position of the harness
    examples,       \* the list handed to split_dataset
    reordered,      \* the same records in another order
    train_tenths,   \* train_ratio is the float literal train_tenths/10
    val_tenths,     \* val_ratio is the float literal val_tenths/10
    again,          \* split_dataset(reordered, train_ratio, val_ratio)
    \* split_dataset's locals and result (harness and main)
    train_end, val_end,
    train, val, test,
    \* main
    pc,             \* main's position
    seed_file,      \* the file at seeds_path: whether open() succeeds, and its lines
    error,          \* the exception that left main, "none" while there is none
    seeds,          \* load_seeds(seeds_path)
    seed_variants,  \* augment_seed_variants(seeds, count=100)
    augmented,      \* augment_from_templates(args.augment_count)
    api_examples,   \* generate_with_openai(...) or []
    all_examples,   \* seeds + seed_variants + augmented + api_examples, then deduplicated
    vi,             \* index of the validation loop (lines 634-640)
    valid,          \* the list main hands to split_dataset and saves
    invalid,        \* main's counter of removed records
    files,          \* what save_jsonl wrote: file name -> lines
    \* harness of generate_with_openai
    ap,             \* position of the function
    target_count,   \* its argument
    batch_index,    \* i of the loop at line 492
    seen_outputs,   \* its set of accepted outputs
    collected,      \* its list examples
    requested,      \* the requests sent so far: batch index and category index
    replies,        \* what the service did with each request
    \* harness of make_slug
    mp,             \* position of the harness
    slug_description, \* the description handed to make_slug
    slug_prefix,    \* the prefix handed to make_slug
    slug_result,    \* make_slug(slug_description, slug_prefix)
    \* harness of augment_from_templates and augment_seed_variants
    gp,             \* position of the function
    fn,             \* which of the two functions runs
    aug_count,      \* its argument count
    loop_seeds,     \* the argument seeds of augment_seed_variants
    rounds,         \* rounds of the for loop begun so far
    loop_seen,      \* its set seen
    produced,       \* its list examples
    last_draw,      \* what the last round drew, and the (inp, out) it computed
    \* harness of the rephrase_verb variant
    rp,             \* position of the harness
    rseed,          \* the seed drawn
    rpick,          \* the index of the synonym drawn
    rephrased       \* the (inp, out) of the round

sanVars   == <<sp, raw, out, out2, ok>>
dedupVars == <<dp, dex, unique>>
splitIn   == <<spl, examples, reordered, train_tenths, val_tenths, again>>
splitOut  == <<train_end, val_end, train, val, test>>
stageVars == <<seeds, seed_variants, augmented, api_examples>>
mainVars  == <<pc, seed_file, error, stageVars, all_examples, vi, valid, invalid, files>>

apiVars == <<ap, target_count, batch_index, seen_outputs, collected, requested, replies>>

slugVars == <<mp, slug_description, slug_prefix, slug_result>>

augVars == <<gp, fn, aug_count, loop_seeds, rounds, loop_seen, produced, last_draw>>

rephraseVars == <<rp, rseed, rpick, rephrased>>

vars == <<sanVars, dedupVars, splitIn, splitOut, mainVars, apiVars, slugVars, augVars, rephraseVars>>

\* what each harness leaves alone
notSan   == <<dedupVars, splitIn, splitOut, mainVars, apiVars, slugVars, augVars, rephraseVars>>
notDedup == <<sanVars, splitIn, splitOut, mainVars, apiVars, slugVars, augVars, rephraseVars>>
notSplit == <<sanVars, dedupVars, mainVars, apiVars, slugVars, augVars, rephraseVars>>
notMain  == <<sanVars, dedupVars, splitIn, seed_file, apiVars, slugVars, augVars, rephraseVars>>
notApi   == <<sanVars, dedupVars, splitIn, splitOut, mainVars, slugVars, augVars, rephraseVars>>
notSlug  == <<sanVars, dedupVars, splitIn, splitOut, mainVars, apiVars, augVars, rephraseVars>>
notAug   == <<sanVars, dedupVars, splitIn, splitOut, mainVars, apiVars, slugVars, rephraseVars>>
notRephrase == <<sanVars, dedupVars, splitIn, splitOut, mainVars, apiVars, slugVars, augVars>>

----------------------------------------------------------------------------
(* Characters.                                                             *)

LowerSeq == <<"a", "b", "c", "d", "e", "f", "g", "h", "i", "j", "k", "l", "m", "n", "o", "p", "q", "r", "s", "t", "u", "v", "w", "x", "y", "z">>
UpperSeq == <<"A", "B", "C", "D", "E", "F", "G", "H", "I", "J", "K", "L", "M", "N", "O", "P", "Q", "R", "S", "T", "U", "V", "W", "X", "Y", "Z">>

LowerLetters == {LowerSeq[i] : i \in 1..Len(LowerSeq)}
UpperLetters == {UpperSeq[i] : i \in 1..Len(UpperSeq)}
Digits       == {"0", "1", "2", "3", "4", "5", "6", "7", "8", "9"}
Whitespace   == {" ", "\n"}
\* strip("\"'`"); the backquote cannot be written in a string literal here and
\* behaves like the other two
QuoteChars   == {"\"", "'"}

\* the characters the harness inputs are drawn from: one or two of each class
\* the code distinguishes
Chars == {"a", "A", "1", "-", "/", " ", "\n", "'", "!"}

\* [a-z0-9\-] of the validator's pattern (line 42)
PatternChars == LowerLetters \cup Digits \cup {"-"}

\* [a-z0-9\-/], the complement of the class replaced at line 30
KeptChars == LowerLetters \cup Digits \cup {"-", "/"}

----------------------------------------------------------------------------
(* String helpers.                                                         *)

MinOf(S) == CHOOSE x \in S : \A y \in S : x <= y
MaxOf(S) == CHOOSE x \in S : \A y \in S : x >= y

\* body(v), with v computed once and then used as a value (the way a Python
\* statement assigns a local before the next statement uses it)
Once(v, body(_)) == CHOOSE r \in {body(x) : x \in {v}} : TRUE

\* the subsequence of s at the positions lo..hi that are in keep, in order
RECURSIVE KeepRange(_, _, _, _)
KeepRange(s, keep, lo, hi) ==
    IF lo > hi THEN <<>>
    ELSE IF lo = hi THEN (IF lo \in keep THEN <<s[lo]>> ELSE <<>>)
    ELSE LET mid == (lo + hi) \div 2
         IN  KeepRange(s, keep, lo, mid) \o KeepRange(s, keep, mid + 1, hi)

\* the subsequence of s at the positions in keep, in order
KeepAt(s, keep) == KeepRange(s, keep, 1, Len(s))

\* str.strip(chars): drop leading and trailing characters that are in cs
Strip(s, cs) ==
    LET idx == {i \in 1..Len(s) : s[i] \notin cs}
    IN  IF idx = {} THEN <<>> ELSE SubSeq(s, MinOf(idx), MaxOf(idx))

\* s.split("\n")[0]
FirstLine(s) ==
    LET nl == {i \in 1..Len(s) : s[i] = "\n"}
    IN  IF nl = {} THEN s ELSE SubSeq(s, 1, MinOf(nl) - 1)

LowerChar(c) ==
    IF c \in UpperLetters
    THEN LowerSeq[CHOOSE i \in 1..Len(UpperSeq) : UpperSeq[i] = c]
    ELSE c

\* str.lower()
Lower(s) == [i \in 1..Len(s) |-> LowerChar(s[i])]

\* (a variant whose character class also keeps the blank)
ReplaceInvalidKeepBlank(s) ==
    [i \in 1..Len(s) |-> IF s[i] \in KeptChars \cup {" "} THEN s[i] ELSE "-"]

\* re.sub(r"[^a-z0-9\-/]", "-", name)
ReplaceInvalid(s) == [i \in 1..Len(s) |-> IF s[i] \in KeptChars THEN s[i] ELSE "-"]

\* re.sub(r"-{2,}", "-", name): every maximal run of hyphens becomes one hyphen
CollapseHyphens(s) ==
    KeepAt(s, {i \in 1..Len(s) : ~(s[i] = "-" /\ i > 1 /\ s[i - 1] = "-")})

\* s[:n]
Take(s, n) == SubSeq(s, 1, IF Len(s) < n THEN Len(s) ELSE n)

\* "--" in name
HasDoubleHyphen(s) == \E i \in 1..(Len(s) - 1) : s[i] = "-" /\ s[i + 1] = "-"

----------------------------------------------------------------------------
(* sanitize_branch_name and is_valid_branch_name.                          *)

TruncLen   == 50      \* name[:50]
MinSlugLen == 3       \* len(name) < 3
MaxSlugLen == 50      \* len(name) > 50

\* lines 27-32: everything sanitize_branch_name does before the final cut
Cleaned(s) ==
    LET line     == FirstLine(Strip(s, Whitespace))
        unquoted == Strip(line, QuoteChars)
        lowered  == Lower(unquoted)
        replaced == ReplaceInvalid(lowered)
        single   == CollapseHyphens(replaced)
    IN  Strip(single, {"-"})

\* (a variant that repairs the cut: it strips the hyphen the cut leaves)
sanitize_and_trim(s) == Strip(Take(Cleaned(s), TruncLen), {"-"})

sanitize_branch_name(s) == Take(Cleaned(s), TruncLen)

\* re.match(r"^[a-z][a-z0-9\-]*$", name): Python's $ also matches just before
\* a newline that ends the string
MatchesPattern(name) ==
    /\ Len(name) >= 1
    /\ name[1] \in LowerLetters
    /\ \E e \in {Len(name)} \cup
                (IF name[Len(name)] = "\n" THEN {Len(name) - 1} ELSE {}) :
           \A i \in 2..e : name[i] \in PatternChars

is_valid_branch_name(name) ==
    IF name = <<>> \/ Len(name) < MinSlugLen THEN FALSE
    ELSE IF Len(name) > MaxSlugLen THEN FALSE
    ELSE IF ~MatchesPattern(name) THEN FALSE
    ELSE IF name[1] = "-" \/ name[Len(name)] = "-" THEN FALSE
    ELSE IF HasDoubleHyphen(name) THEN FALSE
    ELSE TRUE

----------------------------------------------------------------------------
(* Harness for the two pure functions: every string made of a run of "a"   *)
(* followed by a short arbitrary tail.                                     *)

MaxTail == 3

Pad(n) == [i \in 1..n |-> "a"]

PadLens == {0, TruncLen - 2, TruncLen - 1}

RECURSIVE StringsUpTo(_)
StringsUpTo(n) ==
    IF n = 0 THEN {<<>>}
    ELSE LET shorter == StringsUpTo(n - 1)
         IN  shorter \cup {Append(s, c) : s \in {t \in shorter : Len(t) = n - 1}, c \in Chars}

RawInputs == {Pad(p) \o t : p \in PadLens, t \in StringsUpTo(MaxTail)}

IdleSan ==
    /\ sp = "idle"
    /\ raw = <<>>
    /\ out = <<>>
    /\ out2 = <<>>
    /\ ok = FALSE

IdleDedup ==
    /\ dp = "idle"
    /\ dex = <<>>
    /\ unique = <<>>

IdleSplitIn ==
    /\ spl = "idle"
    /\ examples = <<>>
    /\ reordered = <<>>
    /\ train_tenths = 0
    /\ val_tenths = 0
    /\ again = <<>>

IdleSplitOut ==
    /\ train_end = 0
    /\ val_end = 0
    /\ train = <<>>
    /\ val = <<>>
    /\ test = <<>>

IdleMain ==
    /\ pc = "idle"
    /\ seed_file = [readable |-> FALSE, lines |-> <<>>]
    /\ error = "none"
    /\ seeds = <<>>
    /\ seed_variants = <<>>
    /\ augmented = <<>>
    /\ api_examples = <<>>
    /\ all_examples = <<>>
    /\ vi = 0
    /\ valid = <<>>
    /\ invalid = 0
    /\ files = <<>>

IdleApi ==
    /\ ap = "idle"
    /\ target_count = 0
    /\ batch_index = 0
    /\ seen_outputs = {}
    /\ collected = <<>>
    /\ requested = <<>>
    /\ replies = <<>>

IdleSlug ==
    /\ mp = "idle"
    /\ slug_description = <<>>
    /\ slug_prefix = <<>>
    /\ slug_result = <<>>

IdleAug ==
    /\ gp = "idle"
    /\ fn = "none"
    /\ aug_count = 0
    /\ loop_seeds = <<>>
    /\ rounds = 0
    /\ loop_seen = {}
    /\ produced = <<>>
    /\ last_draw = [kind |-> "none", seed |-> 0, prefix |-> <<>>, input |-> <<>>, output |-> <<>>]

IdleRephrase ==
    /\ rp = "idle"
    /\ rseed = [input |-> <<>>, output |-> <<>>]
    /\ rpick = 0
    /\ rephrased = [input |-> <<>>, output |-> <<>>]

InitSan ==
    /\ sp = "input"
    /\ raw \in RawInputs
    /\ out = <<>>
    /\ out2 = <<>>
    /\ ok = FALSE
    /\ IdleDedup /\ IdleSplitIn /\ IdleSplitOut /\ IdleMain /\ IdleApi /\ IdleSlug /\ IdleAug /\ IdleRephrase

\* out = sanitize_branch_name(raw)
Sanitize ==
    /\ sp = "input"
    /\ out' = sanitize_branch_name(raw)
    /\ sp' = "sanitized"
    /\ UNCHANGED <<raw, out2, ok, notSan>>

\* ok = is_valid_branch_name(out), the check every caller makes after sanitizing
ValidateSanitized ==
    /\ sp = "sanitized"
    /\ ok' = is_valid_branch_name(out)
    /\ sp' = "validated"
    /\ UNCHANGED <<raw, out, out2, notSan>>

\* out2 = sanitize_branch_name(out)
Resanitize ==
    /\ sp = "validated"
    /\ out2' = sanitize_branch_name(out)
    /\ sp' = "resanitized"
    /\ UNCHANGED <<raw, out, ok, notSan>>

\* ok = is_valid_branch_name(raw), on a string that was not sanitized
ValidateRaw ==
    /\ sp = "input"
    /\ ok' = is_valid_branch_name(raw)
    /\ sp' = "checked"
    /\ UNCHANGED <<raw, out, out2, notSan>>

NextSan == Sanitize \/ ValidateSanitized \/ Resanitize \/ ValidateRaw

SpecSan == InitSan /\ [][NextSan]_vars

----------------------------------------------------------------------------
(* Claims about sanitize_branch_name and is_valid_branch_name (SpecSan).   *)

\* the cleaned form is longer than the cut and the cut falls right after a hyphen
CutAtHyphen(s) == Len(Cleaned(s)) > TruncLen /\ Cleaned(s)[TruncLen] = "-"

\* the slug grammar of the data model: length in [3, 50], only lowercase
\* letters, digits and hyphens, first character a letter, no trailing hyphen,
\* no two consecutive hyphens
SlugGrammar(s) ==
    /\ Len(s) >= 3
    /\ Len(s) <= 50
    /\ \A i \in 1..Len(s) : s[i] \in LowerLetters \cup Digits \cup {"-"}
    /\ s[1] \in LowerLetters
    /\ s[Len(s)] # "-"
    /\ ~HasDoubleHyphen(s)

\* C7 as stated: sanitize_branch_name(sanitize_branch_name(s)) = sanitize_branch_name(s)
\* for every string s, also when the cleaned form is cut at a hyphen.
C7_Idempotent == sp = "resanitized" => out2 = out

\* C7 amended: sanitize_branch_name is idempotent on every string whose cleaned
\* form is not cut right after a hyphen; when it is, the second application
\* removes the trailing hyphen the cut left (and nothing else).
C7_IdempotentUnlessCutAtHyphen ==
    sp = "resanitized" =>
        IF CutAtHyphen(raw) THEN out2 = SubSeq(out, 1, Len(out) - 1)
                            ELSE out2 = out

\* C7 witness: a string that sanitizing changed and cut, not at a hyphen, was
\* sanitized twice.
C7_Witness ==
    /\ sp = "resanitized"
    /\ Len(Cleaned(raw)) > TruncLen
    /\ ~CutAtHyphen(raw)
    /\ out # raw
    /\ out2 = out

\* C8 as stated: the result of sanitize_branch_name contains only characters of
\* [a-z0-9-].
C8_OnlySlugChars ==
    sp \in {"sanitized", "validated", "resanitized"} =>
        \A i \in 1..Len(out) : out[i] \in LowerLetters \cup Digits \cup {"-"}

\* C9 as stated: is_valid_branch_name(s) is true exactly when s satisfies the
\* slug grammar.
C9_ValidIffGrammar == sp = "checked" => (ok <=> SlugGrammar(raw))

----------------------------------------------------------------------------
(* Records and dedup_examples.                                             *)
(* A record is a Python dict {"input": ..., "output": ...}; the field id   *)
(* is the identity of the dict object (two lists may hold the same dict).  *)

Record(i, inp, outp) == [id |-> i, input |-> inp, output |-> outp]

\* (a variant of the loop that never does seen.add(key))
dedup_without_marking(exs) ==
    LET F[i \in 0..Len(exs)] ==
            IF i = 0 THEN [seen |-> {}, unique |-> <<>>]
            ELSE LET prev == F[i - 1]
                     key  == exs[i].output
                 IN  IF key \notin prev.seen
                     THEN [seen |-> prev.seen, unique |-> Append(prev.unique, exs[i])]
                     ELSE prev
    IN  F[Len(exs)].unique

\* lines 552-561: the loop over examples with the set seen and the list unique
dedup_examples(exs) ==
    LET F[i \in 0..Len(exs)] ==
            IF i = 0 THEN [seen |-> {}, unique |-> <<>>]
            ELSE LET prev == F[i - 1]
                     key  == exs[i].output
                 IN  IF key \notin prev.seen
                     THEN [seen   |-> prev.seen \cup {key},
                           unique |-> Append(prev.unique, exs[i])]
                     ELSE prev
    IN  F[Len(exs)].unique

----------------------------------------------------------------------------
(* Harness for dedup_examples: every list of up to MaxDedupLen records     *)
(* over a few descriptions and labels.                                     *)

MaxDedupLen == 3

DedupLabels == {<<"f", "i", "x", "-", "a">>, <<"f", "i", "x", "-", "b">>, <<"F", "i", "x", "-", "a">>}
DedupInputs == {"Fix a", "Fix b"}

RECURSIVE ListsUpTo(_, _)
ListsUpTo(S, n) ==
    IF n = 0 THEN {<<>>}
    ELSE LET shorter == ListsUpTo(S, n - 1)
         IN  shorter \cup {Append(l, x) : l \in {t \in shorter : Len(t) = n - 1}, x \in S}

\* the dicts of a list are distinct objects: the i-th has identity i
AsRecords(l) == [i \in 1..Len(l) |-> Record(i, l[i][1], l[i][2])]

InitDedup ==
    /\ dp = "input"
    /\ dex \in {AsRecords(l) : l \in ListsUpTo(DedupInputs \X DedupLabels, MaxDedupLen)}
    /\ unique = <<>>
    /\ IdleSan /\ IdleSplitIn /\ IdleSplitOut /\ IdleMain /\ IdleApi /\ IdleSlug /\ IdleAug /\ IdleRephrase

\* unique = dedup_examples(dex)
Dedup ==
    /\ dp = "input"
    /\ unique' = dedup_examples(dex)
    /\ dp' = "done"
    /\ UNCHANGED <<dex, notDedup>>

NextDedup == Dedup

SpecDedup == InitDedup /\ [][NextDedup]_vars

\* the positions of xs that hold the first occurrence of their output
FirstOccurrences(xs) ==
    {i \in 1..Len(xs) : \A j \in 1..(i - 1) : xs[j].output # xs[i].output}

PairwiseDistinctOutputs(xs) ==
    \A i, j \in 1..Len(xs) : i # j => xs[i].output # xs[j].output

\* C6: dedup_examples(xs) is the subsequence of xs made of the first occurrence
\* of each distinct output, in the original order; it is never longer than xs
\* and as long as xs exactly when the outputs of xs are pairwise distinct.
C6_DedupFirstOccurrences ==
    dp = "done" =>
        /\ unique = KeepAt(dex, FirstOccurrences(dex))
        /\ Len(unique) <= Len(dex)
        /\ (Len(unique) = Len(dex) <=> PairwiseDistinctOutputs(dex))

\* C6 witness: a list in which a later duplicate was removed and a record
\* after it was kept.
C6_Witness ==
    /\ dp = "done"
    /\ Len(dex) = 3
    /\ dex[1].output = dex[2].output
    /\ dex[3].output # dex[1].output
    /\ Len(unique) = 2

----------------------------------------------------------------------------
(* Python floats (IEEE 754 binary64) as used by split_dataset.             *)
(* A float is [neg, man, exp], the number (-1)^neg * man * 2^exp, where    *)
(* man is the sequence of the mantissa's bits, least significant first,    *)
(* without leading zero bits (<<>> is 0), at most DoublePrecision long.    *)
(* Every operation computes the exact result and rounds it to the nearest  *)
(* float, ties to even.  Exponent range and subnormals play no part for    *)
(* the values met here.  Exact sums and products are computed on limbs:    *)
(* a natural number is also the sequence of its digits in base LimbBase,   *)
(* least significant first.                                                *)

DoublePrecision == 53

LimbBits == 15
LimbBase == 2 ^ LimbBits

BitAt(a, i)  == IF 1 <= i /\ i <= Len(a) THEN a[i] ELSE 0
LimbAt(a, i) == IF i <= Len(a) THEN a[i] ELSE 0

\* without leading zero digits
Trim(a) ==
    LET nz == {i \in 1..Len(a) : a[i] # 0}
    IN  IF nz = {} THEN <<>> ELSE SubSeq(a, 1, MaxOf(nz))

RECURSIVE BitsOf(_)
BitsOf(n) == IF n = 0 THEN <<>> ELSE <<n % 2>> \o BitsOf(n \div 2)

RECURSIVE NatOf(_)
NatOf(a) == IF a = <<>> THEN 0 ELSE a[1] + 2 * NatOf(Tail(a))

BitsOfLimbs(a) ==
    Trim([i \in 1..(LimbBits * Len(a)) |->
            (a[((i - 1) \div LimbBits) + 1] \div (2 ^ ((i - 1) % LimbBits))) % 2])

LimbsOfBits(b) ==
    LET limb(k) == NatOf([j \in 1..LimbBits |-> BitAt(b, LimbBits * (k - 1) + j)])
    IN  Trim([k \in 1..((Len(b) + LimbBits - 1) \div LimbBits) |-> limb(k)])

\* a * 2^k on bits
Shl(a, k) == Trim([i \in 1..(Len(a) + k) |-> IF i <= k THEN 0 ELSE a[i - k]])

\* a + 1 on bits
BInc(a) ==
    LET z == {i \in 1..Len(a) : a[i] = 0}
    IN  IF z = {} THEN [i \in 1..(Len(a) + 1) |-> IF i <= Len(a) THEN 0 ELSE 1]
        ELSE [i \in 1..Len(a) |-> IF i < MinOf(z) THEN 0
                                  ELSE IF i = MinOf(z) THEN 1 ELSE a[i]]

\* a + b on limbs
LAdd(a, b) ==
    LET n == IF Len(a) > Len(b) THEN Len(a) ELSE Len(b)
        F[i \in 0..n] ==
            IF i = 0 THEN [digits |-> <<>>, carry |-> 0]
            ELSE LET prev == F[i - 1]
                     t    == LimbAt(a, i) + LimbAt(b, i) + prev.carry
                 IN  [digits |-> Append(prev.digits, t % LimbBase),
                      carry  |-> t \div LimbBase]
    IN  Trim(Append(F[n].digits, F[n].carry))

\* a - b on limbs, for a >= b
LSub(a, b) ==
    LET F[i \in 0..Len(a)] ==
            IF i = 0 THEN [digits |-> <<>>, borrow |-> 0]
            ELSE LET prev == F[i - 1]
                     t    == LimbAt(a, i) - LimbAt(b, i) - prev.borrow
                 IN  [digits |-> Append(prev.digits, t % LimbBase),
                      borrow |-> IF t < 0 THEN 1 ELSE 0]
    IN  Trim(F[Len(a)].digits)

\* a < b on limbs (or bits)
NLess(a, b) ==
    \/ Len(a) < Len(b)
    \/ /\ Len(a) = Len(b)
       /\ \E i \in 1..Len(a) :
             /\ a[i] < b[i]
             /\ \A j \in (i + 1)..Len(a) : a[j] = b[j]

\* a * n on limbs, for 0 <= n < LimbBase
LMulSmall(a, n) ==
    LET F[i \in 0..Len(a)] ==
            IF i = 0 THEN [digits |-> <<>>, carry |-> 0]
            ELSE LET prev == F[i - 1]
                     t    == a[i] * n + prev.carry
                 IN  [digits |-> Append(prev.digits, t % LimbBase),
                      carry  |-> t \div LimbBase]
    IN  Trim(Append(F[Len(a)].digits, F[Len(a)].carry))

\* (a variant that cuts the extra bits off instead of rounding to nearest)
ChopToDouble(neg, man, exp) ==
    LET m    == Trim(man)
        drop == Len(m) - DoublePrecision
    IN  IF m = <<>> THEN [neg |-> FALSE, man |-> <<>>, exp |-> 0]
        ELSE IF drop <= 0 THEN [neg |-> neg, man |-> m, exp |-> exp]
        ELSE [neg |-> neg, man |-> SubSeq(m, drop + 1, Len(m)), exp |-> exp + drop]

\* the float nearest to (-1)^neg * man * 2^exp, ties to even
RoundToDouble(neg, man, exp) ==
    LET m    == Trim(man)
        drop == Len(m) - DoublePrecision
    IN  IF m = <<>> THEN [neg |-> FALSE, man |-> <<>>, exp |-> 0]
        ELSE IF drop <= 0 THEN [neg |-> neg, man |-> m, exp |-> exp]
        ELSE LET kept   == SubSeq(m, drop + 1, Len(m))
                 guard  == m[drop]
                 sticky == \E i \in 1..(drop - 1) : m[i] = 1
                 up     == guard = 1 /\ (sticky \/ kept[1] = 1)
             IN  [neg |-> neg,
                  man |-> IF up THEN BInc(kept) ELSE kept,
                  exp |-> exp + drop]

\* number of base-LimbBase digits the long division of a literal produces
\* after the point before it rounds
FracLimbs == 5

\* the float a decimal literal num/den denotes (correctly rounded), for
\* 0 < den, den * LimbBase and |num| / den machine-sized
FloatOfRatio(num, den) ==
    LET mag == IF num < 0 THEN -num ELSE num
        G[i \in 0..FracLimbs] ==
            IF i = 0 THEN [digits |-> <<>>, r |-> mag % den]
            ELSE LET prev == G[i - 1]
                     t    == prev.r * LimbBase
                 IN  [digits |-> <<t \div den>> \o prev.digits, r |-> t % den]
        last == G[FracLimbs]
        bits == [i \in 1..(LimbBits * FracLimbs) |->
                    (last.digits[((i - 1) \div LimbBits) + 1]
                        \div (2 ^ ((i - 1) % LimbBits))) % 2]
        \* one more bit standing for the nonzero rest of the quotient
        rest == IF last.r # 0 THEN 1 ELSE 0
    IN  RoundToDouble(num < 0, <<rest>> \o bits \o BitsOf(mag \div den),
                      -(LimbBits * FracLimbs + 1))

\* x + y
FAdd(x, y) ==
    LET e  == IF x.exp < y.exp THEN x.exp ELSE y.exp
        mx == LimbsOfBits(Shl(x.man, x.exp - e))
        my == LimbsOfBits(Shl(y.man, y.exp - e))
    IN  IF x.neg = y.neg THEN RoundToDouble(x.neg, BitsOfLimbs(LAdd(mx, my)), e)
        ELSE IF NLess(mx, my) THEN RoundToDouble(y.neg, BitsOfLimbs(LSub(my, mx)), e)
        ELSE RoundToDouble(x.neg, BitsOfLimbs(LSub(mx, my)), e)

\* n * x for an int 0 <= n < LimbBase (n converts to a float exactly)
FMulInt(n, x) ==
    RoundToDouble(x.neg, BitsOfLimbs(LMulSmall(LimbsOfBits(x.man), n)), x.exp)

\* int(x): truncation toward zero
FTrunc(x) ==
    LET mag == IF x.exp >= 0 THEN NatOf(Shl(x.man, x.exp))
               ELSE IF -x.exp >= Len(x.man) THEN 0
               ELSE NatOf(SubSeq(x.man, 1 - x.exp, Len(x.man)))
    IN  IF x.neg THEN -mag ELSE mag

----------------------------------------------------------------------------
(* split_dataset.                                                          *)

\* the Python str as one string (the argument of hashlib.md5 at line 568)
RECURSIVE StrRange(_, _, _)
StrRange(s, lo, hi) ==
    IF lo > hi THEN ""
    ELSE IF lo = hi THEN s[lo]
    ELSE LET mid == (lo + hi) \div 2
         IN  StrRange(s, lo, mid) \o StrRange(s, mid + 1, hi)

Str(s) == StrRange(s, 1, Len(s))

\* hashlib.md5(label.encode()).hexdigest() for the labels met here (those that
\* reach split_dataset, and the canonical forms of the seed labels that the
\* validation removes first): the first 7 hexadecimal digits of the real
\* digest, read as a number.  The digests of the table all differ within these digits, so
\* comparing the numbers orders two labels as comparing their hexdigests does.
Md5Table ==
    "fix-bug" :> 31533303 @@ "add-api" :> 5189518 @@ "doc-fix" :> 75081938 @@ "aaaaaaaaaaaaaaaaaaaaaaaaaaaaaaaaaaaaaaaaaaaaaaaaa" :> 9434615 @@
    "fix-bug-status-bar" :> 146213446 @@ "feat-caching" :> 127420121 @@ "feat-search" :> 3503649 @@ "fix-crash" :> 261025041 @@
    "add/api" :> 255884397 @@ "aaaaaaaaaaaaaaaaaaaaaaaaaaaaaaaaaaaaaaaaaaaaaaaaa-" :> 221552542 @@ "feat-search-status-bar" :> 31688966 @@ "rec-0" :> 194344009 @@
    "rec-1" :> 176204716 @@ "rec-2" :> 65566584 @@ "rec-3" :> 169764632 @@ "rec-4" :> 68346643 @@
    "rec-5" :> 85676168 @@ "rec-6" :> 38041899 @@ "rec-7" :> 25259517 @@ "rec-8" :> 129566377 @@
    "rec-9" :> 172803871 @@ "rec-10" :> 261207548 @@ "rec-11" :> 9038821 @@ "rec-12" :> 68803195 @@
    "rec-13" :> 155716734 @@ "rec-14" :> 116396856 @@ "rec-15" :> 161834309 @@ "rec-16" :> 66958803 @@
    "rec-17" :> 216335374 @@ "rec-18" :> 58426439 @@ "rec-19" :> 57713212 @@ "rec-20" :> 192662581 @@
    "rec-21" :> 234188821 @@ "rec-22" :> 165593795 @@ "rec-23" :> 262565930 @@ "rec-24" :> 6689230 @@
    "rec-25" :> 46637138 @@ "rec-26" :> 179344198 @@ "rec-27" :> 194661615 @@ "rec-28" :> 199478236 @@
    "rec-29" :> 164343064 @@ "rec-30" :> 174168013 @@ "rec-31" :> 134511345 @@ "rec-32" :> 100860483 @@
    "rec-33" :> 193884135 @@ "rec-34" :> 3427048 @@ "rec-35" :> 118069481 @@ "rec-36" :> 31397214 @@
    "rec-37" :> 243698676 @@ "rec-38" :> 140174607 @@ "rec-39" :> 67419118 @@ "rec-40" :> 145977546 @@
    "rec-41" :> 71109906 @@ "rec-42" :> 249724304 @@ "rec-43" :> 75089941 @@ "rec-44" :> 262921360 @@
    "rec-45" :> 111398088 @@ "rec-46" :> 93906524 @@ "rec-47" :> 161318425 @@ "rec-48" :> 187314899 @@
    "rec-49" :> 100681345 @@ "rec-50" :> 8533424 @@ "rec-51" :> 136298551 @@ "rec-52" :> 178568565 @@
    "rec-53" :> 28106691 @@ "rec-54" :> 263215551 @@ "rec-55" :> 59052867 @@ "rec-56" :> 196315785 @@
    "rec-57" :> 262997710 @@ "rec-58" :> 20848357 @@ "rec-59" :> 253869792 @@ "rec-60" :> 36676482 @@
    "rec-61" :> 21583087 @@ "rec-62" :> 141423510 @@ "rec-63" :> 1425573 @@ "rec-64" :> 130805740 @@
    "rec-65" :> 206295008 @@ "rec-66" :> 199274993 @@ "rec-67" :> 206232448 @@ "rec-68" :> 24063617 @@
    "rec-69" :> 216355560 @@ "rec-70" :> 177586283 @@ "rec-71" :> 57870337 @@ "rec-72" :> 126292693 @@
    "rec-73" :> 87111383 @@ "rec-74" :> 95220138 @@ "rec-75" :> 5627796 @@ "rec-76" :> 227399980 @@
    "rec-77" :> 181128757 @@ "rec-78" :> 27103286 @@ "rec-79" :> 123980551 @@ "rec-80" :> 32802563 @@
    "rec-81" :> 38256706 @@ "rec-82" :> 16978322 @@ "rec-83" :> 181317423 @@ "rec-84" :> 224865260 @@
    "rec-85" :> 176915162 @@ "rec-86" :> 262458226 @@ "rec-87" :> 17350007 @@ "rec-88" :> 32327074 @@
    "rec-89" :> 232662944 @@ "rec-90" :> 50959158 @@ "rec-91" :> 72976423 @@ "rec-92" :> 138063478 @@
    "rec-93" :> 212626442 @@ "rec-94" :> 32331118 @@ "rec-95" :> 16578227 @@ "rec-96" :> 92607246 @@
    "rec-97" :> 18065107 @@ "rec-98" :> 191920416 @@ "rec-99" :> 61483788 @@ "rec-100" :> 255261381 @@
    "rec-101" :> 168035383

\* the sort key of line 568: a function of the record's output alone
md5_hexdigest(output) == Md5Table[Str(output)]

\* (a variant that leaves the list in the order it came in)
not_sorted(exs) == exs

\* sorted(examples, key=...): ascending by key, stable (records with equal keys
\* keep their input order).  The record at input position i goes to position
\* 1 + the number of records that sort before it.
sorted_by_md5(exs) ==
    LET n    == Len(exs)
        key  == [i \in 1..n |-> md5_hexdigest(exs[i].output)]
        keys == SubSeq(key, 1, n)
        pos  == [i \in 1..n |->
                    1 + Cardinality({j \in 1..n : \/ keys[j] < keys[i]
                                                  \/ keys[j] = keys[i] /\ j < i})]
        at   == SubSeq(pos, 1, n)
    IN  [p \in 1..n |-> exs[CHOOSE i \in 1..n : at[i] = p]]

\* a slice bound i of a list of length n: a negative bound counts from the
\* end, and every bound is clamped to 0..n
PyIndex(i, n) ==
    IF i < 0 THEN (IF i + n < 0 THEN 0 ELSE i + n)
    ELSE IF i > n THEN n ELSE i

\* (a variant whose upper bound is inclusive)
PySliceClosed(s, lo, hi) ==
    SubSeq(s, PyIndex(lo, Len(s)) + 1, PyIndex(hi + 1, Len(s)))

\* s[lo:hi]
PySlice(s, lo, hi) == SubSeq(s, PyIndex(lo, Len(s)) + 1, PyIndex(hi, Len(s)))

\* the default arguments of split_dataset: the float literals 0.8 and 0.1
DefaultTrainRatio == FloatOfRatio(8, 10)
DefaultValRatio   == FloatOfRatio(1, 10)

\* lines 568-580, statement by statement; the result is (train, val, test),
\* given here with the two locals train_end and val_end
split_dataset(exs, train_ratio, val_ratio) ==
    Once(sorted_by_md5(exs), LAMBDA examples_sorted :
    Once(Len(examples_sorted), LAMBDA n :
    Once(FTrunc(FMulInt(n, train_ratio)), LAMBDA te :
    Once(FAdd(train_ratio, val_ratio), LAMBDA sum :
    Once(FTrunc(FMulInt(n, sum)), LAMBDA ve :
        [train_end |-> te,
         val_end   |-> ve,
         train     |-> PySlice(examples_sorted, 0, te),
         val       |-> PySlice(examples_sorted, te, ve),
         test      |-> PySlice(examples_sorted, ve, n)])))))

----------------------------------------------------------------------------
(* Harness for split_dataset: short lists over a few labels (outputs may   *)
(* repeat), longer lists of distinct labels, and the list of 100 records   *)
(* of the specification's scenario; each with a second ordering of the     *)
(* same records and a pair of ratios given in tenths.                      *)

MaxSplitLen == 3
MaxBulk == 10

SplitLabels == {<<"f", "i", "x", "-", "b", "u", "g">>,
                <<"a", "d", "d", "-", "a", "p", "i">>,
                <<"d", "o", "c", "-", "f", "i", "x">>}

DigitSeq == <<"0", "1", "2", "3", "4", "5", "6", "7", "8", "9">>

\* str(i) for i >= 0
RECURSIVE Decimal(_)
Decimal(i) ==
    IF i < 10 THEN <<DigitSeq[i + 1]>>
    ELSE Append(Decimal(i \div 10), DigitSeq[(i % 10) + 1])

\* n records with the distinct labels rec-0 .. rec-(n-1)
BulkList(n) ==
    [i \in 1..n |-> Record(i, "Record", <<"r", "e", "c", "-">> \o Decimal(i - 1))]

Reverse(l) == [i \in 1..Len(l) |-> l[Len(l) + 1 - i]]
Rotate(l)  == [i \in 1..Len(l) |-> l[(i % Len(l)) + 1]]

\* reversal and rotation generate every permutation, so a result that is the
\* same for a list and for its reversal and rotation, whatever the list, is
\* the same for any two orderings
Reorderings(l) == {l, Reverse(l), Rotate(l)}

ShortLists ==
    {AsRecords(l) : l \in ListsUpTo({"Fix it"} \X SplitLabels, MaxSplitLen)}

BulkLists == {BulkList(n) : n \in (MaxSplitLen + 1)..MaxBulk}

\* train_ratio and val_ratio in tenths: the defaults, sums below, at and above
\* 1, and negative ratios
RatioPairs == {<<8, 1>>, <<7, 1>>, <<7, 3>>, <<4, 3>>, <<10, 0>>, <<0, 0>>,
               <<7, 5>>, <<8, -3>>, <<-3, 8>>}

InitSplit ==
    /\ spl = "input"
    /\ \/ /\ examples \in ShortLists \cup BulkLists
          /\ reordered \in Reorderings(examples)
          /\ \E r \in RatioPairs : train_tenths = r[1] /\ val_tenths = r[2]
       \/ /\ examples = BulkList(100)
          /\ reordered = Reverse(examples)
          /\ train_tenths = 8
          /\ val_tenths = 1
    /\ again = <<>>
    /\ IdleSplitOut /\ IdleSan /\ IdleDedup /\ IdleMain /\ IdleApi /\ IdleSlug /\ IdleAug /\ IdleRephrase

\* train, val, test = split_dataset(examples, train_ratio, val_ratio)
Split ==
    /\ spl = "input"
    /\ \E train_ratio \in {FloatOfRatio(train_tenths, 10)},
          val_ratio \in {FloatOfRatio(val_tenths, 10)} :
          \E r \in {split_dataset(examples, train_ratio, val_ratio)} :
             /\ train_end' = r.train_end
             /\ val_end' = r.val_end
             /\ train' = r.train
             /\ val' = r.val
             /\ test' = r.test
    /\ spl' = "done"
    /\ UNCHANGED <<examples, reordered, train_tenths, val_tenths, again, notSplit>>

\* again = split_dataset(reordered, train_ratio, val_ratio)
SplitAgain ==
    /\ spl = "done"
    /\ \E train_ratio \in {FloatOfRatio(train_tenths, 10)},
          val_ratio \in {FloatOfRatio(val_tenths, 10)} :
          \E r \in {split_dataset(reordered, train_ratio, val_ratio)} :
             again' = <<r.train, r.val, r.test>>
    /\ spl' = "again"
    /\ UNCHANGED <<examples, reordered, train_tenths, val_tenths, splitOut, notSplit>>

NextSplit == Split \/ SplitAgain

SpecSplit == InitSplit /\ [][NextSplit]_vars

----------------------------------------------------------------------------
(* Claims about split_dataset (SpecSplit).                                 *)

Range(l) == {l[i] : i \in 1..Len(l)}

\* the identities of the dicts a list holds
Ids(l) == {l[i].id : i \in 1..Len(l)}

\* a and b hold the same records, each as many times
IsPermutation(a, b) ==
    /\ Len(a) = Len(b)
    /\ \A x \in Range(a) \cup Range(b) :
          Cardinality({i \in 1..Len(a) : a[i] = x}) =
          Cardinality({i \in 1..Len(b) : b[i] = x})

\* no dict is in two of the three lists
PairwiseDisjoint(a, b, c) ==
    /\ Ids(a) \cap Ids(b) = {}
    /\ Ids(a) \cap Ids(c) = {}
    /\ Ids(b) \cap Ids(c) = {}

SplitIsPartition ==
    /\ PairwiseDisjoint(train, val, test)
    /\ IsPermutation(train \o val \o test, examples)

\* C3 as stated: for every list and every pair of ratios with 0 <= train_ratio
\* and train_ratio + val_ratio <= 1, train, val and test are pairwise disjoint
\* and train + val + test is a permutation of the input.
C3_PartitionForStatedRatios ==
    (spl \in {"done", "again"} /\ 0 <= train_tenths /\ train_tenths + val_tenths <= 10)
        => SplitIsPartition

\* C3 amended: for every list and every pair of ratios with 0 <= train_ratio,
\* 0 <= val_ratio and train_ratio + val_ratio <= 1, train, val and test are
\* pairwise disjoint and train + val + test is a permutation of the input.
C3_PartitionForNonNegativeRatios ==
    (/\ spl \in {"done", "again"}
     /\ 0 <= train_tenths
     /\ 0 <= val_tenths
     /\ train_tenths + val_tenths <= 10)
        => SplitIsPartition

\* C3 witness: a list with a repeated output was split into three non-empty
\* parts, in an order other than the input's.
C3_Witness ==
    /\ spl = "done"
    /\ 0 <= train_tenths /\ 0 <= val_tenths /\ train_tenths + val_tenths <= 10
    /\ train # <<>> /\ val # <<>> /\ test # <<>>
    /\ ~PairwiseDistinctOutputs(examples)
    /\ train \o val \o test # examples

\* C4: for two orderings of the same records with pairwise distinct outputs,
\* split_dataset returns the same train, val and test, members and order.
C4_OrderIndependent ==
    (spl = "again" /\ PairwiseDistinctOutputs(examples))
        => again = <<train, val, test>>

\* C4 witness: three records with distinct outputs were split from two
\* different orderings, neither of which is the sorted order, and train and
\* test are not empty.
C4_Witness ==
    /\ spl = "again"
    /\ Len(examples) = 3
    /\ PairwiseDistinctOutputs(examples)
    /\ reordered # examples
    /\ train \o val \o test \notin {examples, reordered}
    /\ train # <<>> /\ test # <<>>
    /\ again = <<train, val, test>>

\* floor(n * tenths / 10), exactly
ExactFloor(n, tenths) == (n * tenths) \div 10

\* C5 as stated: len(train) = floor(n*train_ratio), len(val) =
\* floor(n*(train_ratio+val_ratio)) - floor(n*train_ratio) and len(test) =
\* n - floor(n*(train_ratio+val_ratio)); 100 records with the defaults give
\* 80, 10 and 10.
C5_SizesAreExactFloors ==
    spl \in {"done", "again"} =>
        LET n == Len(examples)
        IN  /\ Len(train) = ExactFloor(n, train_tenths)
            /\ Len(val) = ExactFloor(n, train_tenths + val_tenths)
                             - ExactFloor(n, train_tenths)
            /\ Len(test) = n - ExactFloor(n, train_tenths + val_tenths)
            /\ (n = 100 /\ train_tenths = 8 /\ val_tenths = 1)
                  => (Len(train) = 80 /\ Len(val) = 10 /\ Len(test) = 10)

\* C5 amended: for 0 <= train_ratio, 0 <= val_ratio and train_ratio +
\* val_ratio <= 1 the sizes are train_end, val_end - train_end and
\* n - val_end, where train_end = int(n * train_ratio) and val_end =
\* int(n * (train_ratio + val_ratio)) are computed in double precision: each
\* is the exact floor or one less (with 0.7 and 0.1, 5 records give val_end 3
\* and 10 records give val_end 7); with the defaults 0.8 and 0.1
\* both are the exact floor for the sizes checked, and 100 records give 80, 10
\* and 10.
C5_SizesAreDoubleFloors ==
    (/\ spl \in {"done", "again"}
     /\ 0 <= train_tenths
     /\ 0 <= val_tenths
     /\ train_tenths + val_tenths <= 10)
        => LET n  == Len(examples)
               e1 == ExactFloor(n, train_tenths)
               e2 == ExactFloor(n, train_tenths + val_tenths)
           IN  /\ Len(train) = train_end
               /\ Len(val) = val_end - train_end
               /\ Len(test) = n - val_end
               /\ train_end \in {e1 - 1, e1}
               /\ val_end \in {e2 - 1, e2}
               /\ (train_tenths = 7 /\ val_tenths = 1 /\ n = 5) => val_end = 3
               /\ (train_tenths = 7 /\ val_tenths = 1 /\ n = 10) => val_end = 7
               /\ (train_tenths = 8 /\ val_tenths = 1)
                     => (train_end = e1 /\ val_end = e2)
               /\ (train_tenths = 8 /\ val_tenths = 1 /\ n = 100)
                     => (Len(train) = 80 /\ Len(val) = 10 /\ Len(test) = 10)

\* C5 witness: the 100 records of the scenario were split with the defaults
\* into 80, 10 and 10.
C5_Witness ==
    /\ spl = "done"
    /\ Len(examples) = 100
    /\ train_tenths = 8 /\ val_tenths = 1
    /\ Len(train) = 80 /\ Len(val) = 10 /\ Len(test) = 10

----------------------------------------------------------------------------
(* The generation stages as main sees them.  What the random module and    *)
(* the remote service return is the environment's choice: each stage takes *)
(* the sequence of its draws (or of the items of the service's replies)    *)
(* and runs the function's accept loop over it.                            *)

AugmentCount == 500     \* --augment-count, default
VariantCount == 100     \* augment_seed_variants(seeds, count=100)
MinInputLen  == 5       \* len(inp) < 5

StartsWith(s, p) == Len(s) >= Len(p) /\ SubSeq(s, 1, Len(p)) = p

\* lines 268-271
remove_list ==
    <<<<"a", "d", "d", " ">>,
      <<"i", "m", "p", "l", "e", "m", "e", "n", "t", " ">>,
      <<"f", "i", "x", " ">>,
      <<"r", "e", "f", "a", "c", "t", "o", "r", " ">>,
      <<"u", "p", "d", "a", "t", "e", " ">>,
      <<"c", "r", "e", "a", "t", "e", " ">>,
      <<"b", "u", "i", "l", "d", " ">>,
      <<"i", "n", "t", "r", "o", "d", "u", "c", "e", " ">>,
      <<"e", "n", "a", "b", "l", "e", " ">>,
      <<"s", "u", "p", "p", "o", "r", "t", " ">>,
      <<"r", "e", "s", "o", "l", "v", "e", " ">>,
      <<"d", "o", "c", "u", "m", "e", "n", "t", " ">>,
      <<"w", "r", "i", "t", "e", " ">>,
      <<"c", "l", "e", "a", "n", " ", "u", "p", " ">>,
      <<"s", "e", "t", " ", "u", "p", " ">>,
      <<"c", "o", "n", "f", "i", "g", "u", "r", "e", " ">>,
      <<"t", "e", "s", "t", " ">>,
      <<"v", "e", "r", "i", "f", "y", " ">>,
      <<"c", "o", "v", "e", "r", " ">>>>

SlugBudget == 45    \* len(candidate) > 45

\* re.sub(r"[^a-z0-9]+", "-", desc): every maximal run of other characters
\* becomes one hyphen
Slugify(s) ==
    CollapseHyphens([i \in 1..Len(s) |->
                        IF s[i] \in LowerLetters \cup Digits THEN s[i] ELSE "-"])

\* s.split("-")
SplitOnHyphen(s) ==
    LET seps   == {i \in 1..Len(s) : s[i] = "-"}
        cut(k) == IF k = 0 THEN 0
                  ELSE IF k > Cardinality(seps) THEN Len(s) + 1
                  ELSE CHOOSE i \in seps : Cardinality({j \in seps : j <= i}) = k
    IN  [k \in 1..(Cardinality(seps) + 1) |-> SubSeq(s, cut(k - 1) + 1, cut(k) - 1)]

\* lines 267-274: desc after the first phrase of the list that starts it, if any
strip_leading_verb(desc) ==
    LET starts == {k \in 1..Len(remove_list) : StartsWith(desc, remove_list[k])}
    IN  IF starts = {} THEN desc
        ELSE SubSeq(desc, Len(remove_list[MinOf(starts)]) + 1, Len(desc))

\* (a variant of the loop at lines 283-287 that cuts at the budget)
limit_by_cutting(prefix, parts) ==
    LET F[i \in 0..Len(parts)] ==
            IF i = 0 THEN prefix ELSE F[i - 1] \o <<"-">> \o parts[i]
    IN  Take(F[Len(parts)], SlugBudget)

\* lines 281-289: whole parts are appended while the candidate fits
limit_length(prefix, parts) ==
    LET F[i \in 0..Len(parts)] ==
            IF i = 0 THEN [result |-> prefix, broke |-> FALSE]
            ELSE LET prev      == F[i - 1]
                     candidate == prev.result \o <<"-">> \o parts[i]
                 IN  IF prev.broke THEN prev
                     ELSE IF Len(candidate) > SlugBudget THEN [prev EXCEPT !.broke = TRUE]
                     ELSE [result |-> candidate, broke |-> FALSE]
    IN  F[Len(parts)].result

\* lines 264-289
make_slug(description, prefix) ==
    Once(strip_leading_verb(Lower(description)), LAMBDA desc :
    Once(Strip(Slugify(desc), {"-"}), LAMBDA slug :
    Once(SplitOnHyphen(slug), LAMBDA parts :
        limit_length(prefix, parts))))

\* range(count * 3) at lines 297 and 339
max_rounds_plus_one(count) == count * 3 + 1

max_rounds(count) == count * 3

\* (a variant of lines 320-328 that does not look into seen)
template_round_unseen(st, draw) ==
    LET slug == make_slug(draw.description, draw.prefix)
    IN  IF ~is_valid_branch_name(slug) THEN st
        ELSE [seen     |-> st.seen \cup {slug},
              examples |-> Append(st.examples,
                                  Record(<<"template", Len(st.examples) + 1>>,
                                         draw.description, slug))]

\* lines 301-328, one round: the draw is the prefix chosen at line 301 and the
\* description formatted at lines 313-316
template_round(st, draw) ==
    LET slug == make_slug(draw.description, draw.prefix)
    IN  IF ~is_valid_branch_name(slug) THEN st
        ELSE IF slug \in st.seen THEN st
        ELSE [seen     |-> st.seen \cup {slug},
              examples |-> Append(st.examples,
                                  Record(<<"template", Len(st.examples) + 1>>,
                                         draw.description, slug))]

\* lines 292-331 over the draws of the rounds
augment_from_templates(count, draws) ==
    LET F[i \in 0..Len(draws)] ==
            IF i = 0 THEN [seen |-> {}, examples |-> <<>>]
            ELSE LET prev == F[i - 1]
                 IN  IF i > max_rounds(count) \/ Len(prev.examples) >= count THEN prev
                     ELSE template_round(prev, draws[i])
    IN  F[Len(draws)].examples

\* re.sub(r"[^a-z0-9]+", "-", noun.lower()).strip("-")
noun_slug(noun) ==
    LET lowered  == Lower(noun)
        replaced == [i \in 1..Len(lowered) |->
                        IF lowered[i] \in LowerLetters \cup Digits THEN lowered[i] ELSE "-"]
    IN  Strip(CollapseHyphens(replaced), {"-"})

\* lines 74-85
VERB_SYNONYMS ==
    (<<"f", "i", "x">> :>
        <<<<"r", "e", "s", "o", "l", "v", "e">>,
          <<"r", "e", "p", "a", "i", "r">>,
          <<"p", "a", "t", "c", "h">>,
          <<"c", "o", "r", "r", "e", "c", "t">>,
          <<"a", "d", "d", "r", "e", "s", "s">>>>) @@
    (<<"a", "d", "d">> :>
        <<<<"i", "m", "p", "l", "e", "m", "e", "n", "t">>,
          <<"i", "n", "t", "r", "o", "d", "u", "c", "e">>,
          <<"c", "r", "e", "a", "t", "e">>,
          <<"b", "u", "i", "l", "d">>,
          <<"i", "n", "c", "l", "u", "d", "e">>>>) @@
    (<<"u", "p", "d", "a", "t", "e">> :>
        <<<<"u", "p", "g", "r", "a", "d", "e">>,
          <<"m", "o", "d", "i", "f", "y">>,
          <<"c", "h", "a", "n", "g", "e">>,
          <<"r", "e", "v", "i", "s", "e">>,
          <<"a", "d", "j", "u", "s", "t">>>>) @@
    (<<"r", "e", "m", "o", "v", "e">> :>
        <<<<"d", "e", "l", "e", "t", "e">>,
          <<"d", "r", "o", "p">>,
          <<"e", "l", "i", "m", "i", "n", "a", "t", "e">>,
          <<"s", "t", "r", "i", "p">>,
          <<"c", "l", "e", "a", "n", " ", "u", "p">>>>) @@
    (<<"r", "e", "f", "a", "c", "t", "o", "r">> :>
        <<<<"r", "e", "s", "t", "r", "u", "c", "t", "u", "r", "e">>,
          <<"r", "e", "o", "r", "g", "a", "n", "i", "z", "e">>,
          <<"s", "i", "m", "p", "l", "i", "f", "y">>,
          <<"r", "e", "w", "o", "r", "k">>,
          <<"o", "v", "e", "r", "h", "a", "u", "l">>>>) @@
    (<<"i", "m", "p", "r", "o", "v", "e">> :>
        <<<<"e", "n", "h", "a", "n", "c", "e">>,
          <<"o", "p", "t", "i", "m", "i", "z", "e">>,
          <<"b", "o", "o", "s", "t">>,
          <<"s", "t", "r", "e", "n", "g", "t", "h", "e", "n">>,
          <<"p", "o", "l", "i", "s", "h">>>>) @@
    (<<"m", "i", "g", "r", "a", "t", "e">> :>
        <<<<"m", "o", "v", "e">>,
          <<"t", "r", "a", "n", "s", "f", "e", "r">>,
          <<"p", "o", "r", "t">>,
          <<"c", "o", "n", "v", "e", "r", "t">>,
          <<"t", "r", "a", "n", "s", "i", "t", "i", "o", "n">>>>) @@
    (<<"c", "o", "n", "f", "i", "g", "u", "r", "e">> :>
        <<<<"s", "e", "t", " ", "u", "p">>,
          <<"e", "n", "a", "b", "l", "e">>,
          <<"a", "c", "t", "i", "v", "a", "t", "e">>,
          <<"i", "n", "i", "t", "i", "a", "l", "i", "z", "e">>,
          <<"w", "i", "r", "e", " ", "u", "p">>>>) @@
    (<<"d", "o", "c", "u", "m", "e", "n", "t">> :>
        <<<<"w", "r", "i", "t", "e", " ", "d", "o", "c", "s", " ", "f", "o", "r">>,
          <<"d", "e", "s", "c", "r", "i", "b", "e">>,
          <<"e", "x", "p", "l", "a", "i", "n">>,
          <<"a", "d", "d", " ", "d", "o", "c", "s", " ", "f", "o", "r">>>>) @@
    (<<"t", "e", "s", "t">> :>
        <<<<"v", "e", "r", "i", "f", "y">>,
          <<"v", "a", "l", "i", "d", "a", "t", "e">>,
          <<"c", "h", "e", "c", "k">>,
          <<"a", "s", "s", "e", "r", "t">>,
          <<"c", "o", "v", "e", "r">>>>)

\* lines 100-147
PREFIX_MAP ==
    (<<"f", "i", "x">> :> <<"f", "i", "x">>) @@
    (<<"r", "e", "s", "o", "l", "v", "e">> :> <<"f", "i", "x">>) @@
    (<<"r", "e", "p", "a", "i", "r">> :> <<"f", "i", "x">>) @@
    (<<"p", "a", "t", "c", "h">> :> <<"f", "i", "x">>) @@
    (<<"c", "o", "r", "r", "e", "c", "t">> :> <<"f", "i", "x">>) @@
    (<<"a", "d", "d", "r", "e", "s", "s">> :> <<"f", "i", "x">>) @@
    (<<"a", "d", "d">> :> <<"f", "e", "a", "t">>) @@
    (<<"i", "m", "p", "l", "e", "m", "e", "n", "t">> :> <<"f", "e", "a", "t">>) @@
    (<<"i", "n", "t", "r", "o", "d", "u", "c", "e">> :> <<"f", "e", "a", "t">>) @@
    (<<"c", "r", "e", "a", "t", "e">> :> <<"f", "e", "a", "t">>) @@
    (<<"b", "u", "i", "l", "d">> :> <<"f", "e", "a", "t">>) @@
    (<<"i", "n", "c", "l", "u", "d", "e">> :> <<"f", "e", "a", "t">>) @@
    (<<"u", "p", "d", "a", "t", "e">> :> <<"c", "h", "o", "r", "e">>) @@
    (<<"u", "p", "g", "r", "a", "d", "e">> :> <<"c", "h", "o", "r", "e">>) @@
    (<<"m", "o", "d", "i", "f", "y">> :> <<"f", "e", "a", "t">>) @@
    (<<"c", "h", "a", "n", "g", "e">> :> <<"f", "e", "a", "t">>) @@
    (<<"r", "e", "v", "i", "s", "e">> :> <<"c", "h", "o", "r", "e">>) @@
    (<<"r", "e", "f", "a", "c", "t", "o", "r">> :> <<"r", "e", "f", "a", "c", "t", "o", "r">>) @@
    (<<"r", "e", "s", "t", "r", "u", "c", "t", "u", "r", "e">> :> <<"r", "e", "f", "a", "c", "t", "o", "r">>) @@
    (<<"r", "e", "o", "r", "g", "a", "n", "i", "z", "e">> :> <<"r", "e", "f", "a", "c", "t", "o", "r">>) @@
    (<<"s", "i", "m", "p", "l", "i", "f", "y">> :> <<"r", "e", "f", "a", "c", "t", "o", "r">>) @@
    (<<"r", "e", "w", "o", "r", "k">> :> <<"r", "e", "f", "a", "c", "t", "o", "r">>) @@
    (<<"o", "v", "e", "r", "h", "a", "u", "l">> :> <<"r", "e", "f", "a", "c", "t", "o", "r">>) @@
    (<<"r", "e", "m", "o", "v", "e">> :> <<"c", "h", "o", "r", "e">>) @@
    (<<"d", "e", "l", "e", "t", "e">> :> <<"c", "h", "o", "r", "e">>) @@
    (<<"d", "r", "o", "p">> :> <<"c", "h", "o", "r", "e">>) @@
    (<<"e", "l", "i", "m", "i", "n", "a", "t", "e">> :> <<"c", "h", "o", "r", "e">>) @@
    (<<"d", "o", "c", "u", "m", "e", "n", "t">> :> <<"d", "o", "c", "s">>) @@
    (<<"w", "r", "i", "t", "e", " ", "d", "o", "c", "s", " ", "f", "o", "r">> :> <<"d", "o", "c", "s">>) @@
    (<<"d", "e", "s", "c", "r", "i", "b", "e">> :> <<"d", "o", "c", "s">>) @@
    (<<"e", "x", "p", "l", "a", "i", "n">> :> <<"d", "o", "c", "s">>) @@
    (<<"a", "d", "d", " ", "d", "o", "c", "s", " ", "f", "o", "r">> :> <<"d", "o", "c", "s">>) @@
    (<<"t", "e", "s", "t">> :> <<"t", "e", "s", "t">>) @@
    (<<"v", "e", "r", "i", "f", "y">> :> <<"t", "e", "s", "t">>) @@
    (<<"v", "a", "l", "i", "d", "a", "t", "e">> :> <<"t", "e", "s", "t">>) @@
    (<<"c", "h", "e", "c", "k">> :> <<"t", "e", "s", "t">>) @@
    (<<"c", "o", "n", "f", "i", "g", "u", "r", "e">> :> <<"c", "h", "o", "r", "e">>) @@
    (<<"s", "e", "t", " ", "u", "p">> :> <<"c", "h", "o", "r", "e">>) @@
    (<<"e", "n", "a", "b", "l", "e">> :> <<"c", "h", "o", "r", "e">>) @@
    (<<"m", "i", "g", "r", "a", "t", "e">> :> <<"c", "h", "o", "r", "e">>) @@
    (<<"m", "o", "v", "e">> :> <<"r", "e", "f", "a", "c", "t", "o", "r">>) @@
    (<<"c", "o", "n", "v", "e", "r", "t">> :> <<"r", "e", "f", "a", "c", "t", "o", "r">>) @@
    (<<"i", "m", "p", "r", "o", "v", "e">> :> <<"f", "e", "a", "t">>) @@
    (<<"e", "n", "h", "a", "n", "c", "e">> :> <<"f", "e", "a", "t">>) @@
    (<<"o", "p", "t", "i", "m", "i", "z", "e">> :> <<"f", "e", "a", "t">>) @@
    (<<"b", "o", "o", "s", "t">> :> <<"f", "e", "a", "t">>)

\* lines 149-158, each phrase up to its {noun}, which ends it
CONTEXT_PHRASES ==
    <<<<"f", "o", "r", " ", "t", "h", "e", " ">>,
      <<"i", "n", " ", "t", "h", "e", " ">>,
      <<"o", "n", " ", "t", "h", "e", " ">>,
      <<"t", "o", " ", "t", "h", "e", " ">>,
      <<"w", "h", "e", "n", " ", "u", "s", "i", "n", "g", " ">>,
      <<"d", "u", "r", "i", "n", "g", " ">>,
      <<"a", "c", "r", "o", "s", "s", " ">>,
      <<"w", "i", "t", "h", "i", "n", " ", "t", "h", "e", " ">>>>

\* lines 160-168
NOUNS_FOR_CONTEXT ==
    <<<<"d", "a", "s", "h", "b", "o", "a", "r", "d">>,
      <<"s", "i", "d", "e", "b", "a", "r">>,
      <<"s", "e", "t", "t", "i", "n", "g", "s", " ", "p", "a", "g", "e">>,
      <<"t", "e", "r", "m", "i", "n", "a", "l">>,
      <<"w", "o", "r", "k", "s", "p", "a", "c", "e">>,
      <<"f", "i", "l", "e", " ", "e", "x", "p", "l", "o", "r", "e", "r">>,
      <<"e", "d", "i", "t", "o", "r">>,
      <<"t", "o", "o", "l", "b", "a", "r">>,
      <<"s", "t", "a", "t", "u", "s", " ", "b", "a", "r">>,
      <<"d", "i", "a", "l", "o", "g">>,
      <<"n", "o", "t", "i", "f", "i", "c", "a", "t", "i", "o", "n", "s">>,
      <<"s", "e", "a", "r", "c", "h", " ", "p", "a", "n", "e", "l">>,
      <<"c", "o", "m", "m", "a", "n", "d", " ", "p", "a", "l", "e", "t", "t", "e">>,
      <<"t", "a", "b", " ", "b", "a", "r">>,
      <<"l", "o", "g", "i", "n", " ", "s", "c", "r", "e", "e", "n">>,
      <<"p", "r", "o", "f", "i", "l", "e", " ", "p", "a", "g", "e">>,
      <<"a", "d", "m", "i", "n", " ", "p", "a", "n", "e", "l">>,
      <<"c", "h", "e", "c", "k", "o", "u", "t", " ", "f", "l", "o", "w">>,
      <<"m", "a", "i", "n", " ", "l", "a", "y", "o", "u", "t">>,
      <<"n", "a", "v", "i", "g", "a", "t", "i", "o", "n", " ", "m", "e", "n", "u">>,
      <<"c", "o", "n", "t", "e", "x", "t", " ", "m", "e", "n", "u">>,
      <<"t", "o", "o", "l", "t", "i", "p">>,
      <<"m", "o", "d", "a", "l", " ", "w", "i", "n", "d", "o", "w">>,
      <<"d", "r", "o", "p", "d", "o", "w", "n">>,
      <<"d", "a", "t", "a", " ", "t", "a", "b", "l", "e">>,
      <<"f", "o", "r", "m", " ", "i", "n", "p", "u", "t", "s">>,
      <<"h", "e", "a", "d", "e", "r", " ", "s", "e", "c", "t", "i", "o", "n">>,
      <<"f", "o", "o", "t", "e", "r", " ", "a", "r", "e", "a">>,
      <<"o", "n", "b", "o", "a", "r", "d", "i", "n", "g", " ", "w", "i", "z", "a", "r", "d">>,
      <<"e", "r", "r", "o", "r", " ", "p", "a", "g", "e">>>>

\* line 350
prefixes ==
    <<<<"P", "l", "e", "a", "s", "e", " ">>,
      <<"C", "a", "n", " ", "y", "o", "u", " ">>,
      <<"W", "e", " ", "n", "e", "e", "d", " ", "t", "o", " ">>,
      <<"I", " ", "w", "a", "n", "t", " ", "t", "o", " ">>,
      <<"L", "e", "t", "'", "s", " ">>>>


UpperChar(c) ==
    IF c \in LowerLetters
    THEN UpperSeq[CHOOSE i \in 1..Len(LowerSeq) : LowerSeq[i] = c]
    ELSE c

\* str.capitalize()
Capitalize(s) == [i \in 1..Len(s) |-> IF i = 1 THEN UpperChar(s[i]) ELSE LowerChar(s[i])]

\* str.rstrip(chars)
RStrip(s, cs) ==
    LET idx == {i \in 1..Len(s) : s[i] \notin cs}
    IN  IF idx = {} THEN <<>> ELSE SubSeq(s, 1, MaxOf(idx))

\* s.split()[0], for a string that holds a word
FirstWord(s) ==
    LET first == MinOf({i \in 1..Len(s) : s[i] \notin Whitespace})
        blank == {i \in first..Len(s) : s[i] \in Whitespace}
    IN  SubSeq(s, first, IF blank = {} THEN Len(s) ELSE MinOf(blank) - 1)

\* dict.get(key, default)
Get(d, key, default) == IF key \in DOMAIN d THEN d[key] ELSE default

\* lines 375-376; the empty str is false
rephrase_prefix(outp, old_prefix, new_prefix) ==
    IF old_prefix # <<>> /\ new_prefix # <<>> /\ StartsWith(outp, old_prefix)
    THEN new_prefix \o SubSeq(outp, Len(old_prefix) + 1, Len(outp))
    ELSE outp

\* line 367
first_word_of(inp) == RStrip(Lower(FirstWord(inp)), {".", ",", "!", "?"})

\* line 373, by the first word of the synonym
new_prefix_for(first_word, new_verb) ==
    Get(PREFIX_MAP, FirstWord(new_verb), Get(PREFIX_MAP, first_word, <<>>))

\* lines 365-376; pick is the index random.choice takes at line 369
rephrase_verb(inp, outp, pick) ==
    LET first_word == first_word_of(inp)
    IN  IF first_word \notin DOMAIN VERB_SYNONYMS THEN [input |-> inp, output |-> outp]
        ELSE LET new_verb == VERB_SYNONYMS[first_word][pick]
                 new_inp  == Capitalize(new_verb) \o SubSeq(inp, Len(first_word) + 1, Len(inp))
             IN  IF first_word \notin DOMAIN PREFIX_MAP
                 THEN [input |-> new_inp, output |-> outp]
                 ELSE [input  |-> new_inp,
                       output |-> rephrase_prefix(outp, Get(PREFIX_MAP, first_word, <<>>),
                                                  new_prefix_for(first_word, new_verb))]

\* lines 346-376: the (inp, out) a draw gives, for a seed whose input holds a
\* word.  The draw carries what random.choice returned: the politeness
\* prefix, the phrase and the noun, the index of the synonym.
variant(seed, draw) ==
    IF draw.kind = "prepend_please"
    THEN [input  |-> draw.prefix \o <<LowerChar(seed.input[1])>>
                        \o SubSeq(seed.input, 2, Len(seed.input)),
          output |-> seed.output]
    ELSE IF draw.kind = "append_context"
    THEN LET candidate == seed.output \o <<"-">> \o noun_slug(draw.noun)
         IN  [input  |-> RStrip(seed.input, {"."}) \o <<" ">> \o draw.phrase \o draw.noun,
              output |-> IF Len(candidate) <= MaxSlugLen /\ is_valid_branch_name(candidate)
                         THEN candidate ELSE seed.output]
    ELSE rephrase_verb(seed.input, seed.output, draw.pick)

\* (a variant of lines 378-385 that does not look into seen)
variant_round_unseen(st, sds, draw) ==
    LET v == variant(sds[draw.seed], draw)
    IN  IF ~is_valid_branch_name(v.output) THEN st
        ELSE [seen     |-> st.seen \cup {v.output},
              examples |-> Append(st.examples,
                                  Record(<<"variant", Len(st.examples) + 1>>,
                                         v.input, v.output))]

\* lines 343-385, one round
variant_round(st, sds, draw) ==
    LET v == variant(sds[draw.seed], draw)
    IN  IF ~is_valid_branch_name(v.output) THEN st
        ELSE IF v.output \in st.seen THEN st
        ELSE [seen     |-> st.seen \cup {v.output},
              examples |-> Append(st.examples,
                                  Record(<<"variant", Len(st.examples) + 1>>,
                                         v.input, v.output))]

\* (seen starting empty)
no_seed_outputs(sds) == {}

\* line 337
seed_outputs(sds) == {sds[k].output : k \in 1..Len(sds)}

\* lines 334-388 over the draws of the rounds, for a non-empty list of seeds
augment_seed_variants(sds, count, draws) ==
    LET F[i \in 0..Len(draws)] ==
            IF i = 0 THEN [seen |-> seed_outputs(sds), examples |-> <<>>]
            ELSE LET prev == F[i - 1]
                 IN  IF i > max_rounds(count) \/ Len(prev.examples) >= count THEN prev
                     ELSE variant_round(prev, sds, draws[i])
    IN  F[Len(draws)].examples

\* an element of a reply's array that is no JSON object (a number, a string):
\* it has no method get
NotAnObject == [other |-> TRUE]

IsObject(item) == "other" \notin DOMAIN item

\* an object of a reply's array whose "output" is a number, not a string
NumberOutput(inp) == [input |-> inp, number_output |-> TRUE]

HasStringOutput(item) == "number_output" \notin DOMAIN item

\* (lines 520-534 without the test of line 525)
accept_item_unvalidated(prev, item) ==
    IF ~IsObject(item) \/ ~HasStringOutput(item) THEN [prev EXCEPT !.raised = "AttributeError"]
    ELSE LET inp  == item.input
             outp == sanitize_branch_name(item.output)
         IN  IF outp \in prev.seen_outputs THEN prev
             ELSE IF inp = <<>> \/ Len(inp) < MinInputLen THEN prev
             ELSE [seen_outputs |-> prev.seen_outputs \cup {outp},
                   examples     |-> Append(prev.examples,
                                       Record(<<"api", Len(prev.examples) + 1>>, inp, outp)),
                   raised       |-> "none"]

\* (lines 520-534 with the output marked as seen before the input is looked at)
accept_item_marking(prev, item) ==
    IF ~IsObject(item) \/ ~HasStringOutput(item) THEN [prev EXCEPT !.raised = "AttributeError"]
    ELSE LET inp  == item.input
             outp == sanitize_branch_name(item.output)
         IN  IF ~is_valid_branch_name(outp) THEN prev
             ELSE IF outp \in prev.seen_outputs THEN prev
             ELSE IF inp = <<>> \/ Len(inp) < MinInputLen
             THEN [prev EXCEPT !.seen_outputs = prev.seen_outputs \cup {outp}]
             ELSE [seen_outputs |-> prev.seen_outputs \cup {outp},
                   examples     |-> Append(prev.examples,
                                       Record(<<"api", Len(prev.examples) + 1>>, inp, outp)),
                   raised       |-> "none"]

\* lines 520-534: one item of a parsed reply.  item.get on an element that is
\* no object raises AttributeError, and so does raw.strip() in
\* sanitize_branch_name (line 26) on an output that is no string.
accept_item(prev, item) ==
    IF ~IsObject(item) THEN [prev EXCEPT !.raised = "AttributeError"]
    ELSE IF ~HasStringOutput(item) THEN [prev EXCEPT !.raised = "AttributeError"]
    ELSE LET inp  == item.input
             outp == sanitize_branch_name(item.output)
         IN  IF ~is_valid_branch_name(outp) THEN prev
             ELSE IF outp \in prev.seen_outputs THEN prev
             ELSE IF inp = <<>> \/ Len(inp) < MinInputLen THEN prev
             ELSE [seen_outputs |-> prev.seen_outputs \cup {outp},
                   examples     |-> Append(prev.examples,
                                       Record(<<"api", Len(prev.examples) + 1>>, inp, outp)),
                   raised       |-> "none"]

\* (the loop of lines 519-534 as a transaction: an exception undoes the batch)
accept_items_or_nothing(st, items) ==
    LET F[i \in 0..Len(items)] ==
            IF i = 0 THEN [seen_outputs |-> st.seen_outputs, examples |-> st.examples,
                           raised |-> "none"]
            ELSE LET prev == F[i - 1]
                 IN  IF prev.raised # "none" THEN prev ELSE accept_item(prev, items[i])
    IN  IF F[Len(items)].raised = "none" THEN F[Len(items)]
        ELSE [F[0] EXCEPT !.raised = F[Len(items)].raised]

\* lines 518-534: the loop over the items of one parsed reply.  An exception
\* ends the loop; what was appended before stays appended.
accept_items(st, items) ==
    LET F[i \in 0..Len(items)] ==
            IF i = 0 THEN [seen_outputs |-> st.seen_outputs, examples |-> st.examples,
                           raised |-> "none"]
            ELSE LET prev == F[i - 1]
                 IN  IF prev.raised # "none" THEN prev ELSE accept_item(prev, items[i])
    IN  F[Len(items)]

\* lines 519-534 over the items of the parsed replies, in order
generate_with_openai(items) ==
    accept_items([seen_outputs |-> {}, examples |-> <<>>], items).examples

----------------------------------------------------------------------------
(* main.                                                                   *)

\* json.dumps(ex) + "\n" for each record: the line carries the record's
\* input and output as they are when it is written
JsonLines(l) == [i \in 1..Len(l) |-> [input |-> l[i].input, output |-> l[i].output]]

\* ex["output"] = s on the dict with identity id, seen through the list l
SetOutput(l, id, s) ==
    [i \in 1..Len(l) |-> IF l[i].id = id THEN [l[i] EXCEPT !.output = s] ELSE l[i]]

\* (a variant of the test at line 636 that lets every record through)
passes_always(sanitized) == TRUE

\* line 636
passes_validation(sanitized) == is_valid_branch_name(sanitized)

\* the seed files: up to MaxSeeds records whose outputs are a valid label, one
\* that needs canonicalizing to become that label, one that keeps a slash, 49
\* letters followed by "-b", and 49 letters
MaxSeeds == 2

SeedOutputs == {<<"f", "i", "x", "-", "b", "u", "g">>,
                <<"F", "i", "x", " ", "b", "u", "g", "!">>,
                <<"a", "d", "d", "/", "a", "p", "i">>,
                Pad(TruncLen - 1) \o <<"-", "b">>,
                Pad(TruncLen - 1)}

\* a line of the seed file: only whitespace, the JSON text of a record, or
\* text that is not JSON
BlankLine     == [kind |-> "blank", input |-> <<>>, output |-> <<>>]
MalformedLine == [kind |-> "malformed", input |-> <<>>, output |-> <<>>]
RecordLine(inp, outp) == [kind |-> "record", input |-> inp, output |-> outp]

\* line 62: json.loads(line) returns the dict the text denotes, or raises
\* json.JSONDecodeError when the text is not JSON
json_loads(line) ==
    IF line.kind = "record"
    THEN [raised |-> "none", value |-> [input |-> line.input, output |-> line.output]]
    ELSE [raised |-> "JSONDecodeError", value |-> [input |-> <<>>, output |-> <<>>]]

\* lines 54-66.  Nothing in the function catches an exception: the one open()
\* or json.loads() raises leaves it, and no list is returned.
load_seeds(f) ==
    IF ~f.readable THEN [raised |-> "OSError", examples |-> <<>>]
    ELSE LET F[i \in 0..Len(f.lines)] ==
                 IF i = 0 THEN [raised |-> "none", examples |-> <<>>]
                 ELSE LET prev == F[i - 1]
                          line == f.lines[i]
                          ex   == json_loads(line)
                      IN  IF prev.raised # "none" THEN prev
                          ELSE IF line.kind = "blank" THEN prev
                          ELSE IF ex.raised # "none"
                          THEN [raised |-> ex.raised, examples |-> <<>>]
                          ELSE [raised   |-> "none",
                                examples |-> Append(prev.examples,
                                    Record(<<"seed", Len(prev.examples) + 1>>,
                                           ex.value.input, ex.value.output))]
         IN  F[Len(f.lines)]

FixTheBug == <<"F", "i", "x", " ", "t", "h", "e", " ", "b", "u", "g">>

\* the seed files: a missing one; every file of up to MaxSeeds well-formed
\* lines over SeedOutputs; and files with blank and malformed lines
SeedFiles ==
    LET records(l) == [i \in 1..Len(l) |-> RecordLine(FixTheBug, l[i])]
        fix  == RecordLine(FixTheBug, <<"f", "i", "x", "-", "b", "u", "g">>)
        feat == RecordLine(FixTheBug, <<"f", "e", "a", "t", "-", "s", "e", "a", "r", "c", "h">>)
        well == {records(l) : l \in ListsUpTo(SeedOutputs, MaxSeeds)}
        more == {<<BlankLine>>, <<fix, BlankLine, feat>>, <<MalformedLine>>,
                 <<fix, MalformedLine>>, <<MalformedLine, fix>>,
                 <<fix, MalformedLine, BlankLine, feat>>}
    IN  {[readable |-> TRUE, lines |-> l] : l \in well \cup more}
            \cup {[readable |-> FALSE, lines |-> <<>>]}

TemplateDraws ==
    LET caching == [description |-> <<"I", "m", "p", "l", "e", "m", "e", "n", "t", " ", "c", "a", "c", "h", "i", "n", "g">>,
                    prefix |-> <<"f", "e", "a", "t">>]
        search  == [description |-> <<"I", "m", "p", "l", "e", "m", "e", "n", "t", " ", "s", "e", "a", "r", "c", "h">>,
                    prefix |-> <<"f", "e", "a", "t">>]
    IN  {<<>>, <<caching>>, <<search, caching, search>>}

VariantDraws(sds) ==
    LET one == [seed   : 1..Len(sds),
                kind   : {"prepend_please", "append_context", "rephrase_verb"},
                prefix : {prefixes[1]},
                phrase : {CONTEXT_PHRASES[1]},
                noun   : {NOUNS_FOR_CONTEXT[9]},
                pick   : {1}]
    IN  {<<>>} \cup {<<d>> : d \in one} \cup {<<d, d>> : d \in one}

ApiItems ==
    LET crash  == [input |-> <<"F", "i", "x", " ", "t", "h", "e", " ", "c", "r", "a", "s", "h">>,
                   output |-> <<"F", "i", "x", " ", "C", "r", "a", "s", "h">>]
        bug    == [input |-> <<"F", "i", "x", " ", "t", "h", "a", "t", " ", "b", "u", "g">>,
                   output |-> <<"f", "i", "x", "-", "b", "u", "g">>]
        short  == [input |-> <<"B", "u", "g">>,
                   output |-> <<"f", "e", "a", "t", "-", "s", "e", "a", "r", "c", "h">>]
        broken == [input |-> <<"F", "i", "x", " ", "t", "h", "e", " ", "c", "r", "a", "s", "h">>, output |-> <<"-", "-">>]
    IN  {<<>>, <<bug>>, <<broken, short, crash, crash>>}

InitMain ==
    /\ pc = "load_seeds"
    /\ seed_file \in SeedFiles
    /\ error = "none"
    /\ seeds = <<>>
    /\ seed_variants = <<>>
    /\ augmented = <<>>
    /\ api_examples = <<>>
    /\ all_examples = <<>>
    /\ vi = 0
    /\ valid = <<>>
    /\ invalid = 0
    /\ files = <<>>
    /\ IdleSplitOut /\ IdleSplitIn /\ IdleSan /\ IdleDedup /\ IdleApi /\ IdleSlug /\ IdleAug /\ IdleRephrase

\* line 611
LoadSeeds ==
    /\ pc = "load_seeds"
    /\ \E r \in {load_seeds(seed_file)} :
          /\ r.raised = "none"
          /\ seeds' = r.examples
    /\ pc' = "augment"
    /\ UNCHANGED <<seed_variants, augmented, api_examples, all_examples, vi,
                   valid, invalid, files, splitOut, error, notMain>>

\* line 611 when open() or json.loads() raises: nothing in load_seeds or in
\* main catches the exception
LoadSeedsRaises ==
    /\ pc = "load_seeds"
    /\ \E r \in {load_seeds(seed_file)} :
          /\ r.raised # "none"
          /\ error' = r.raised
    /\ pc' = "aborted"
    /\ UNCHANGED <<stageVars, all_examples, vi, valid, invalid, files, splitOut, notMain>>

\* line 614
AugmentFromTemplates ==
    /\ pc = "augment"
    /\ \E draws \in TemplateDraws :
          augmented' = augment_from_templates(AugmentCount, draws)
    /\ pc' = "variants"
    /\ UNCHANGED <<seeds, seed_variants, api_examples, all_examples, vi,
                   valid, invalid, files, splitOut, error, notMain>>

\* line 615
AugmentSeedVariants ==
    /\ pc = "variants"
    /\ seeds # <<>>
    /\ \E draws \in VariantDraws(seeds) :
          seed_variants' = augment_seed_variants(seeds, VariantCount, draws)
    /\ pc' = "api"
    /\ UNCHANGED <<seeds, augmented, api_examples, all_examples, vi,
                   valid, invalid, files, splitOut, error, notMain>>

\* line 615 with no seeds: random.choice([]) at line 343 raises IndexError
AugmentSeedVariantsRaises ==
    /\ pc = "variants"
    /\ seeds = <<>>
    /\ error' = "IndexError"
    /\ pc' = "aborted"
    /\ UNCHANGED <<stageVars, all_examples, vi, valid, invalid, files, splitOut, notMain>>

\* lines 618-625 with --skip-api, without a key, or without the openai package
SkipApi ==
    /\ pc = "api"
    /\ api_examples' = <<>>
    /\ pc' = "combine"
    /\ UNCHANGED <<seeds, seed_variants, augmented, all_examples, vi,
                   valid, invalid, files, splitOut, error, notMain>>

\* line 623
GenerateWithOpenAI ==
    /\ pc = "api"
    /\ \E items \in ApiItems : api_examples' = generate_with_openai(items)
    /\ pc' = "combine"
    /\ UNCHANGED <<seeds, seed_variants, augmented, all_examples, vi,
                   valid, invalid, files, splitOut, error, notMain>>

\* (the union with the remote records first)
combine_remote_first(sds, variants, templates, remote) ==
    remote \o sds \o variants \o templates

\* line 628: seeds + seed_variants + augmented + api_examples, a new list of
\* the same dicts
combine(sds, variants, templates, remote) ==
    sds \o variants \o templates \o remote

\* lines 628-633
CombineAndDedup ==
    /\ pc = "combine"
    /\ all_examples' = dedup_examples(combine(seeds, seed_variants, augmented, api_examples))
    /\ valid' = <<>>
    /\ invalid' = 0
    /\ vi' = 1
    /\ pc' = "validate"
    /\ UNCHANGED <<stageVars, files, splitOut, error, notMain>>

\* lines 634-640, one round of the loop; the assignment at line 637 changes
\* the dict itself, which the stage lists and all_examples hold too
ValidateExample ==
    /\ pc = "validate"
    /\ vi <= Len(all_examples)
    /\ \E ex \in {all_examples[vi]} :
       \E sanitized \in {sanitize_branch_name(ex.output)} :
          IF passes_validation(sanitized)
          THEN /\ valid' = Append(SetOutput(valid, ex.id, sanitized),
                                  [ex EXCEPT !.output = sanitized])
               /\ seeds' = SetOutput(seeds, ex.id, sanitized)
               /\ seed_variants' = SetOutput(seed_variants, ex.id, sanitized)
               /\ augmented' = SetOutput(augmented, ex.id, sanitized)
               /\ api_examples' = SetOutput(api_examples, ex.id, sanitized)
               /\ all_examples' = SetOutput(all_examples, ex.id, sanitized)
               /\ invalid' = invalid
          ELSE /\ invalid' = invalid + 1
               /\ UNCHANGED <<valid, stageVars, all_examples>>
    /\ vi' = vi + 1
    /\ UNCHANGED <<pc, files, splitOut, error, notMain>>

\* line 644, once the loop is over
SplitValid ==
    /\ pc = "validate"
    /\ vi > Len(all_examples)
    /\ \E r \in {split_dataset(valid, DefaultTrainRatio, DefaultValRatio)} :
          /\ train_end' = r.train_end
          /\ val_end' = r.val_end
          /\ train' = r.train
          /\ val' = r.val
          /\ test' = r.test
    /\ pc' = "save_pool"
    /\ UNCHANGED <<stageVars, all_examples, vi, valid, invalid, files, error, notMain>>

\* save_jsonl(examples, path): the file is created or overwritten
save_jsonl(l, path) == (path :> JsonLines(l)) @@ files

\* line 647
SavePool ==
    /\ pc = "save_pool"
    /\ files' = save_jsonl(valid, "branch_names.jsonl")
    /\ pc' = "save_train"
    /\ UNCHANGED <<stageVars, all_examples, vi, valid, invalid, splitOut, error, notMain>>

\* line 648
SaveTrain ==
    /\ pc = "save_train"
    /\ files' = save_jsonl(train, "train.jsonl")
    /\ pc' = "save_val"
    /\ UNCHANGED <<stageVars, all_examples, vi, valid, invalid, splitOut, error, notMain>>

\* line 649
SaveVal ==
    /\ pc = "save_val"
    /\ files' = save_jsonl(val, "val.jsonl")
    /\ pc' = "save_test"
    /\ UNCHANGED <<stageVars, all_examples, vi, valid, invalid, splitOut, error, notMain>>

\* line 650
SaveTest ==
    /\ pc = "save_test"
    /\ files' = save_jsonl(test, "test.jsonl")
    /\ pc' = "done"
    /\ UNCHANGED <<stageVars, all_examples, vi, valid, invalid, splitOut, error, notMain>>

NextMain ==
    \/ LoadSeeds \/ LoadSeedsRaises
    \/ AugmentFromTemplates
    \/ AugmentSeedVariants \/ AugmentSeedVariantsRaises
    \/ SkipApi \/ GenerateWithOpenAI
    \/ CombineAndDedup
    \/ ValidateExample
    \/ SplitValid
    \/ SavePool \/ SaveTrain \/ SaveVal \/ SaveTest

SpecMain == InitMain /\ [][NextMain]_vars

----------------------------------------------------------------------------
(* Claims about main (SpecMain).                                           *)

PoolFile == "branch_names.jsonl"

\* the outputs written to any file so far
WrittenOutputs ==
    UNION {{files[f][i].output : i \in 1..Len(files[f])} : f \in DOMAIN files}

\* C1: every record main writes to the pool, train, val or test file has an
\* output for which is_valid_branch_name returns true, whatever the seeds, the
\* generated records and the remote items were.
C1_WrittenOutputsValid ==
    \A f \in DOMAIN files : \A i \in 1..Len(files[f]) :
        is_valid_branch_name(files[f][i].output)

\* C1 witness: main finished after removing at least one record and after
\* canonicalizing a seed's output (two kept records came out with the same
\* output), and wrote a non-empty train and test file.
C1_Witness ==
    /\ pc = "done"
    /\ invalid > 0
    /\ ~PairwiseDistinctOutputs(valid)
    /\ Len(files["train.jsonl"]) > 0
    /\ Len(files["test.jsonl"]) > 0
    /\ Len(files[PoolFile]) = Len(valid)

\* C2 as stated: the list main hands to split_dataset and writes as the pool
\* holds no two records with the same output, for any seed file.
C2_PoolDistinctOutputs ==
    /\ pc \in {"save_pool", "save_train", "save_val", "save_test", "done"}
          => PairwiseDistinctOutputs(valid)
    /\ PoolFile \in DOMAIN files => PairwiseDistinctOutputs(files[PoolFile])

\* the records of the run (all_examples holds every dict of the stages that
\* survived the first deduplication) whose label is cut right after a hyphen
CutRecords == {i \in 1..Len(all_examples) : CutAtHyphen(all_examples[i].output)}

\* C10: a label whose cleaned form is longer than 50 characters with a hyphen
\* as 50th character is cut to 50 characters ending in that hyphen, is
\* rejected by is_valid_branch_name, and its record is dropped by main: once
\* the loop has passed it, it was counted as invalid and is not in valid, and
\* unless another record canonicalizes to the label without the hyphen, no
\* file ever holds that label.
C10_CutAtHyphenDropped ==
    pc \in {"validate", "save_pool", "save_train", "save_val", "save_test", "done"} =>
        \A i \in CutRecords :
            LET label     == all_examples[i].output
                sanitized == sanitize_branch_name(label)
                trimmed   == SubSeq(sanitized, 1, TruncLen - 1)
            IN  /\ Len(sanitized) = TruncLen
                /\ sanitized[TruncLen] = "-"
                /\ ~is_valid_branch_name(sanitized)
                /\ i < vi => /\ all_examples[i].id \notin Ids(valid)
                             /\ invalid >= Cardinality({j \in CutRecords : j < vi})
                             /\ all_examples[i].output = label
                /\ (\A j \in 1..Len(all_examples) :
                        sanitize_branch_name(all_examples[j].output) # trimmed)
                      => trimmed \notin WrittenOutputs

\* C10 witness: main finished a run whose seeds held a label cut at a hyphen
\* next to a valid one; the pool was written without the cut label's record.
C10_Witness ==
    /\ pc = "done"
    /\ CutRecords # {}
    /\ invalid >= 1
    /\ Len(files[PoolFile]) >= 1
    /\ \A i \in CutRecords :
          SubSeq(all_examples[i].output, 1, TruncLen - 1) \notin WrittenOutputs

\* the records of the well-formed lines of the seed file, in file order
WellFormedLines ==
    LET idx == {i \in 1..Len(seed_file.lines) : seed_file.lines[i].kind = "record"}
    IN  [k \in 1..Cardinality(idx) |->
            LET i == CHOOSE j \in idx : Cardinality({h \in idx : h <= j}) = k
            IN  [input |-> seed_file.lines[i].input, output |-> seed_file.lines[i].output]]

HasMalformedLine ==
    \E i \in 1..Len(seed_file.lines) : seed_file.lines[i].kind = "malformed"

\* C11 as stated: a line of the seed file that is not parseable JSON is
\* skipped by load_seeds and never aborts the run; the loader returns the
\* records of the remaining well-formed lines.
C11_MalformedLineSkipped ==
    (seed_file.readable /\ HasMalformedLine /\ pc # "load_seeds") =>
        /\ error # "JSONDecodeError"
        /\ pc = "augment" => JsonLines(seeds) = WellFormedLines

\* C12 as stated, for the seed files whose non-blank lines are all well-formed
\* (the other readable files are C11's): main does not abort, whatever the
\* number of records, zero included; only a missing or unreadable seed file
\* aborts the run.
C12_ReadableFileNeverAborts ==
    (seed_file.readable /\ ~HasMalformedLine) => pc # "aborted"

----------------------------------------------------------------------------
(* generate_with_openai, batch by batch.  What the service does with a     *)
(* request is the environment's choice: the call raises, the reply's text  *)
(* holds no bracketed part, it holds one that is not JSON, or it holds an  *)
(* array.  A reply can also be given by its text, as a sequence of parts:   *)
(* prose without brackets, the text of a JSON array of items, and a closing *)
(* bracket on its own.                                                     *)

BatchSize     == 20     \* target_count // 20
NumCategories == 60     \* len(CATEGORIES)
DefaultApiCount == 1200 \* --api-count, default

Prose            == [part |-> "prose", items |-> <<>>]
ArrayText(items) == [part |-> "array", items |-> items]
CloseBracket     == [part |-> "close", items |-> <<>>]

\* line 511: re.search(r"\[[\s\S]*\]", text).  The star is greedy: the match
\* runs from the first "[" of the text to its last "]".
re_search(text) ==
    LET opens  == {i \in 1..Len(text) : text[i].part = "array"}
        closes == {i \in 1..Len(text) : text[i].part \in {"array", "close"}}
    IN  IF opens = {} THEN [found |-> FALSE, group |-> <<>>]
        ELSE [found |-> TRUE, group |-> SubSeq(text, MinOf(opens), MaxOf(closes))]

\* line 516: json.loads(json_match.group()) on a match that begins with the
\* text of an array: anything after that array is "Extra data"
json_loads_match(group) ==
    IF Len(group) = 1
    THEN [raised |-> "none", value |-> group[1].items]
    ELSE [raised |-> "JSONDecodeError", value |-> <<>>]

\* (one batch more than line 489 asks for)
batches_needed_plus_one(target) == (target \div BatchSize) + 2

\* line 489
batches_needed(target) == (target \div BatchSize) + 1

\* lines 499-536, the body of the try statement
batch_body(st, reply) ==
    IF reply.kind = "call_raises"
    THEN [seen_outputs |-> st.seen_outputs, examples |-> st.examples, raised |-> "APIError"]
    ELSE IF reply.kind = "no_array"
    THEN [seen_outputs |-> st.seen_outputs, examples |-> st.examples, raised |-> "none"]
    ELSE IF reply.kind = "unparseable_array"
    THEN [seen_outputs |-> st.seen_outputs, examples |-> st.examples,
          raised |-> "JSONDecodeError"]
    ELSE IF reply.kind = "text"
    THEN LET json_match == re_search(reply.text)
             batch      == json_loads_match(json_match.group)
         IN  IF ~json_match.found
             THEN [seen_outputs |-> st.seen_outputs, examples |-> st.examples,
                   raised |-> "none"]
             ELSE IF batch.raised # "none"
             THEN [seen_outputs |-> st.seen_outputs, examples |-> st.examples,
                   raised |-> batch.raised]
             ELSE accept_items(st, batch.value)
    ELSE accept_items(st, reply.items)

\* (the body without the except clause of lines 538-540)
batch_uncaught(st, reply) == batch_body(st, reply)

\* lines 498-540: the try statement; except Exception prints and continues
try_batch(st, reply) == [batch_body(st, reply) EXCEPT !.raised = "none"]

\* target_count: none, fewer than one batch, one and two batches, the default
TargetCounts == {0, 1, 2, BatchSize, 2 * BatchSize, DefaultApiCount}

\* n items with the distinct labels rec-0 .. rec-(n-1)
BulkItems(n) ==
    [i \in 1..n |-> [input |-> <<"A", "d", "d", " ", "a", " ", "r", "e", "c", "o", "r", "d">>,
                     output |-> <<"r", "e", "c", "-">> \o Decimal(i - 1)]]

ApiReplies ==
    LET crash  == [input |-> <<"F", "i", "x", " ", "t", "h", "e", " ", "c", "r", "a", "s", "h">>,
                   output |-> <<"F", "i", "x", " ", "C", "r", "a", "s", "h">>]
        bug    == [input |-> <<"F", "i", "x", " ", "t", "h", "a", "t", " ", "b", "u", "g">>,
                   output |-> <<"f", "i", "x", "-", "b", "u", "g">>]
        short  == [input |-> <<"B", "u", "g">>,
                   output |-> <<"f", "e", "a", "t", "-", "s", "e", "a", "r", "c", "h">>]
        broken == [input |-> <<"F", "i", "x", " ", "t", "h", "e", " ", "c", "r", "a", "s", "h">>, output |-> <<"-", "-">>]
        search == [input |-> <<"A", "d", "d", " ", "s", "e", "a", "r", "c", "h">>,
                   output |-> <<"f", "e", "a", "t", "-", "s", "e", "a", "r", "c", "h">>]
        nokey  == [input |-> <<>>,
                   output |-> <<"f", "e", "a", "t", "-", "l", "o", "g", "i", "n">>]
        login  == [input |-> <<"A", "d", "d", " ", "l", "o", "g", "i", "n">>,
                   output |-> <<"F", "e", "a", "t", " ", "L", "o", "g", "i", "n">>]
        number == NumberOutput(<<"F", "i", "x", " ", "t", "h", "e", " ", "c", "r", "a", "s", "h">>)
        arrays == {<<>>, <<bug>>, <<crash, NotAnObject, bug>>, <<broken, short, crash, crash>>,
                   <<short, search>>, <<nokey>>, <<login>>, <<bug, number, crash>>,
                   BulkItems(BatchSize)}
        texts  == {<<Prose>>,
                   <<Prose, ArrayText(<<bug>>), Prose>>,
                   <<CloseBracket, ArrayText(<<bug>>)>>,
                   <<Prose, ArrayText(<<bug>>), Prose, CloseBracket>>,
                   <<ArrayText(<<bug>>), Prose, ArrayText(<<crash>>)>>}
    IN  {[kind |-> k, items |-> <<>>, text |-> <<>>] :
                k \in {"call_raises", "no_array", "unparseable_array"}}
            \cup {[kind |-> "array", items |-> a, text |-> <<>>] : a \in arrays}
            \cup {[kind |-> "text", items |-> <<>>, text |-> t] : t \in texts}

\* what the service may do in a run: anything above for the short runs, and
\* only a failing call in the run of the default length
ApiRepliesFor(target) ==
    IF target = DefaultApiCount
    THEN {r \in ApiReplies : r.kind = "call_raises"}
    ELSE ApiReplies

InitApi ==
    /\ ap = "start"
    /\ target_count \in TargetCounts
    /\ batch_index = 0
    /\ seen_outputs = {}
    /\ collected = <<>>
    /\ requested = <<>>
    /\ replies = <<>>
    /\ IdleSan /\ IdleDedup /\ IdleSplitIn /\ IdleSplitOut /\ IdleMain /\ IdleSlug /\ IdleAug /\ IdleRephrase

\* lines 479-484: the openai package is not installed
ImportFails ==
    /\ ap = "start"
    /\ ap' = "returned"
    /\ UNCHANGED <<target_count, batch_index, seen_outputs, collected, requested, replies, notApi>>

\* lines 479-489
CreateClient ==
    /\ ap = "start"
    /\ ap' = "loop"
    /\ UNCHANGED <<target_count, batch_index, seen_outputs, collected, requested, replies, notApi>>

\* lines 492-540, one round of the loop
Batch ==
    /\ ap = "loop"
    /\ batch_index < batches_needed(target_count)
    /\ Len(collected) < target_count
    /\ requested' = Append(requested, [index    |-> batch_index,
                                       category |-> batch_index % NumCategories])
    /\ \E reply \in ApiRepliesFor(target_count) :
       \E r \in {try_batch([seen_outputs |-> seen_outputs, examples |-> collected], reply)} :
          /\ replies' = Append(replies, reply)
          /\ IF r.raised = "none"
             THEN /\ seen_outputs' = r.seen_outputs
                  /\ collected' = r.examples
                  /\ batch_index' = batch_index + 1
                  /\ ap' = "loop"
             ELSE /\ ap' = "raised"
                  /\ UNCHANGED <<seen_outputs, collected, batch_index>>
    /\ UNCHANGED <<target_count, notApi>>

\* lines 492-494 and 542-543: the loop is over, the list is returned
ReturnExamples ==
    /\ ap = "loop"
    /\ batch_index >= batches_needed(target_count) \/ Len(collected) >= target_count
    /\ ap' = "returned"
    /\ UNCHANGED <<target_count, batch_index, seen_outputs, collected, requested, replies, notApi>>

NextApi == ImportFails \/ CreateClient \/ Batch \/ ReturnExamples

SpecApi == InitApi /\ [][NextApi]_vars

\* the replies that give the function nothing to read
FailedKinds == {"call_raises", "no_array", "unparseable_array"}

\* C13: a batch whose call fails or whose reply holds no parseable array
\* contributes nothing and is not retried: the loop goes on to the next batch
\* index and category (each index is requested once, in order), no exception
\* leaves the function, and when every batch fails the function returns the
\* empty list.
C13_FailedBatchSkipped ==
    /\ [](/\ ap # "raised"
          /\ Len(requested) = batch_index
          /\ Len(replies) = batch_index
          /\ \A k \in 1..Len(requested) :
                /\ requested[k].index = k - 1
                /\ requested[k].category = (k - 1) % NumCategories
          /\ (ap = "returned" /\ \A k \in 1..Len(replies) : replies[k].kind \in FailedKinds)
                => collected = <<>>)
    /\ [][(Len(replies') > Len(replies) /\ replies'[Len(replies')].kind \in FailedKinds)
            => /\ collected' = collected
               /\ seen_outputs' = seen_outputs
               /\ batch_index' = batch_index + 1
               /\ ap' = "loop"]_vars

\* C13 witness: the function returned after a call that raised, a reply
\* without array and a third batch that added a record.
C13_Witness ==
    /\ ap = "returned"
    /\ Len(replies) = 3
    /\ replies[1].kind = "call_raises"
    /\ replies[2].kind \in {"no_array", "unparseable_array"}
    /\ replies[3].kind = "array"
    /\ Len(collected) = 1

----------------------------------------------------------------------------
(* make_slug.                                                              *)

MaxSlugWords == 3

\* the words the descriptions are made of: two verbs of the list at lines
\* 268-271, short words, a word with inner punctuation, and words of 20 and
\* 41 letters
SlugTokens ==
    {<<"A", "d", "d">>, <<"f", "i", "x">>, <<"x", "1">>, <<"u", "s", "e", "r", "-", "p", "r", "o", "f", "i", "l", "e", "!">>, Pad(20), Pad(41)}

\* " ".join(words)
JoinBlank(words) ==
    LET F[i \in 0..Len(words)] ==
            IF i = 0 THEN <<>>
            ELSE IF i = 1 THEN words[1]
            ELSE F[i - 1] \o <<" ">> \o words[i]
    IN  F[Len(words)]

SlugDescriptions ==
    {JoinBlank(l) : l \in ListsUpTo(SlugTokens, MaxSlugWords)}
        \cup {<<"F", "i", "x", " ">>, <<"!", "!", "!">>}

SlugPrefixes == {<<"f", "i", "x">>, <<"f", "e", "a", "t">>, Pad(SlugBudget - 1), Pad(SlugBudget + 1)}

InitSlug ==
    /\ mp = "input"
    /\ slug_description \in SlugDescriptions
    /\ slug_prefix \in SlugPrefixes
    /\ slug_result = <<>>
    /\ IdleSan /\ IdleDedup /\ IdleSplitIn /\ IdleSplitOut /\ IdleMain /\ IdleApi /\ IdleAug /\ IdleRephrase

\* slug_result = make_slug(slug_description, slug_prefix)
MakeSlug ==
    /\ mp = "input"
    /\ slug_result' = make_slug(slug_description, slug_prefix)
    /\ mp' = "done"
    /\ UNCHANGED <<slug_description, slug_prefix, notSlug>>

NextSlug == MakeSlug

SpecSlug == InitSlug /\ [][NextSlug]_vars

\* the hyphen-separated words of the slugified remainder of the description
SlugWords ==
    LET rest == Strip(Slugify(strip_leading_verb(Lower(slug_description))), {"-"})
    IN  IF rest = <<>> THEN <<>> ELSE SplitOnHyphen(rest)

\* the first k words, joined by hyphens
RECURSIVE WordRun(_, _)
WordRun(words, k) ==
    IF k = 0 THEN <<>>
    ELSE IF k = 1 THEN words[1]
    ELSE WordRun(words, k - 1) \o <<"-">> \o words[k]

\* the first k words, each after a hyphen
RECURSIVE HyphenatedWords(_, _)
HyphenatedWords(words, k) ==
    IF k = 0 THEN <<>> ELSE HyphenatedWords(words, k - 1) \o <<"-">> \o words[k]

\* C20 as stated: make_slug returns the prefix, a hyphen, and the longest
\* initial run of whole words of the slugified remainder that keeps the total
\* length at 45 or less (whenever prefix and hyphen fit at all), and never
\* returns more than 45 characters when the prefix has at most 45.
C20_PrefixHyphenLongestRun ==
    (mp = "done" /\ Len(slug_prefix) + 1 <= SlugBudget) =>
        LET fits == {k \in 0..Len(SlugWords) :
                        Len(slug_prefix) + 1 + Len(WordRun(SlugWords, k)) <= SlugBudget}
        IN  /\ slug_result = slug_prefix \o <<"-">> \o WordRun(SlugWords, MaxOf(fits))
            /\ Len(slug_result) <= SlugBudget

\* C20, amended: make_slug returns the prefix followed by "-" + word for each
\* word of the longest initial run of whole words of the slugified remainder
\* that keeps the total length at 45 or less; when not even the first word
\* fits, that is the prefix alone, without a hyphen; when the remainder holds
\* no letter or digit, it is the prefix and one hyphen if that fits in 45
\* characters.  The result never holds part of a word, never skips a word to
\* take a later one, and has at most 45 characters when the prefix has.
C20_LongestRunOfWholeWords ==
    mp = "done" =>
        LET words == IF SlugWords = <<>> THEN <<<<>>>> ELSE SlugWords
            fits  == {k \in 0..Len(words) :
                         Len(slug_prefix) + Len(HyphenatedWords(words, k)) <= SlugBudget}
        IN  /\ slug_result = slug_prefix \o HyphenatedWords(words, MaxOf(fits \cup {0}))
            /\ Len(slug_prefix) <= SlugBudget => Len(slug_result) <= SlugBudget

\* C20 witness: a description that starts with two verbs of the list, of
\* which only the first is stripped, followed by a word of 41 letters that
\* does not fit: the result is the prefix and the second verb.
C20_Witness ==
    /\ mp = "done"
    /\ slug_description = JoinBlank(<<<<"A", "d", "d">>, <<"f", "i", "x">>, Pad(41)>>)
    /\ slug_prefix = <<"f", "e", "a", "t">>
    /\ slug_result = <<"f", "e", "a", "t", "-", "f", "i", "x">>

----------------------------------------------------------------------------
(* augment_from_templates and augment_seed_variants, round by round.  What *)
(* random.choice returns in a round is the environment's choice.           *)

MaxCount == 2

NoDraw == [kind |-> "none", seed |-> 0, prefix |-> <<>>, input |-> <<>>, output |-> <<>>]

\* the seeds of the harness: the seed of the politeness scenario, one whose
\* verb has synonyms with another prefix, and one whose label is not a slug
LeakSeed == [input |-> <<"F", "i", "x", " ", "m", "e", "m", "o", "r", "y", " ", "l", "e", "a", "k">>, output |-> <<"f", "i", "x", "-", "m", "e", "m", "o", "r", "y", "-", "l", "e", "a", "k">>]
DepsSeed == [input |-> <<"U", "p", "d", "a", "t", "e", " ", "d", "e", "p", "s">>, output |-> <<"c", "h", "o", "r", "e", "-", "d", "e", "p", "s">>]
LoudSeed == [input |-> <<"F", "i", "x", " ", "i", "t">>, output |-> <<"F", "i", "x", " ", "I", "t">>]
\* a seed whose label of 47 characters leaves no room for a noun
LongSeed == [input |-> <<"F", "i", "x", " ", "i", "t">>, output |-> <<"f", "i", "x", "-">> \o Pad(TruncLen - 7)]

LoopSeedLists ==
    LET rec(l) == [i \in 1..Len(l) |-> Record(<<"seed", i>>, l[i].input, l[i].output)]
    IN  {rec(l) : l \in {<<>>, <<LeakSeed>>, <<DepsSeed>>, <<LeakSeed, DepsSeed>>,
                          <<LoudSeed, DepsSeed>>,
                          <<LongSeed, DepsSeed>>}}

\* what a round of augment_seed_variants may draw for the seeds sds: any
\* seed; the first or the last politeness prefix; the first or the fifth
\* phrase with the first or the ninth noun; any synonym of the first word
LoopDraws(sds) ==
    LET picks(s) == IF first_word_of(s.input) \in DOMAIN VERB_SYNONYMS
                    THEN 1..Len(VERB_SYNONYMS[first_word_of(s.input)]) ELSE {1}
        please(i) == {[seed |-> i, kind |-> "prepend_please", prefix |-> p,
                       phrase |-> <<>>, noun |-> <<>>, pick |-> 0] :
                            p \in {prefixes[1], prefixes[5]}}
        context(i) == {[seed |-> i, kind |-> "append_context", prefix |-> <<>>,
                        phrase |-> ph, noun |-> n, pick |-> 0] :
                            ph \in {CONTEXT_PHRASES[1], CONTEXT_PHRASES[5]},
                            n \in {NOUNS_FOR_CONTEXT[1], NOUNS_FOR_CONTEXT[9]}}
        verb(i) == {[seed |-> i, kind |-> "rephrase_verb", prefix |-> <<>>,
                     phrase |-> <<>>, noun |-> <<>>, pick |-> k] : k \in picks(sds[i])}
    IN  UNION {please(i) \cup context(i) \cup verb(i) : i \in 1..Len(sds)}

\* what a round of augment_from_templates may draw: a prefix of
\* TASKS_BY_PREFIX and one of its templates, filled in
TemplateLoopDraws ==
    {[description |-> <<"I", "m", "p", "l", "e", "m", "e", "n", "t", " ", "c", "a", "c", "h", "i", "n", "g">>, prefix |-> <<"f", "e", "a", "t">>],
     [description |-> <<"I", "m", "p", "l", "e", "m", "e", "n", "t", " ", "s", "e", "a", "r", "c", "h">>, prefix |-> <<"f", "e", "a", "t">>],
     [description |-> <<"F", "i", "x", " ", "c", "a", "c", "h", "i", "n", "g", " ", "r", "e", "g", "r", "e", "s", "s", "i", "o", "n">>, prefix |-> <<"f", "i", "x">>],
     [description |-> <<"A", "d", "d", " ", "i", "n", "t", "e", "g", "r", "a", "t", "i", "o", "n", " ", "t", "e", "s", "t", "s", " ", "f", "o", "r", " ", "b", "u", "n", "d", "l", "e", " ", "o", "p", "t", "i", "m", "i", "z", "a", "t", "i", "o", "n">>,
      prefix |-> <<"t", "e", "s", "t">>]}

InitAugment ==
    /\ gp = "loop"
    /\ fn \in {"augment_from_templates", "augment_seed_variants"}
    /\ aug_count \in 0..MaxCount
    /\ loop_seeds \in (IF fn = "augment_seed_variants" THEN LoopSeedLists ELSE {<<>>})
    /\ rounds = 0
    /\ loop_seen = (IF fn = "augment_seed_variants" THEN seed_outputs(loop_seeds) ELSE {})
    /\ produced = <<>>
    /\ last_draw = NoDraw
    /\ IdleSan /\ IdleDedup /\ IdleSplitIn /\ IdleSplitOut /\ IdleMain /\ IdleApi /\ IdleSlug /\ IdleRephrase

\* lines 297-328, one round of the loop
TemplateRound ==
    /\ gp = "loop"
    /\ fn = "augment_from_templates"
    /\ rounds < max_rounds(aug_count)
    /\ Len(produced) < aug_count
    /\ \E draw \in TemplateLoopDraws :
       \E r \in {template_round([seen |-> loop_seen, examples |-> produced], draw)} :
          /\ loop_seen' = r.seen
          /\ produced' = r.examples
          /\ last_draw' = [kind |-> "template", seed |-> 0, prefix |-> draw.prefix,
                           input |-> draw.description,
                           output |-> make_slug(draw.description, draw.prefix)]
    /\ rounds' = rounds + 1
    /\ UNCHANGED <<gp, fn, aug_count, loop_seeds, notAug>>

\* lines 339-385, one round of the loop
VariantRound ==
    /\ gp = "loop"
    /\ fn = "augment_seed_variants"
    /\ rounds < max_rounds(aug_count)
    /\ Len(produced) < aug_count
    /\ loop_seeds # <<>>
    /\ \E draw \in LoopDraws(loop_seeds) :
       \E v \in {variant(loop_seeds[draw.seed], draw)} :
       \E r \in {variant_round([seen |-> loop_seen, examples |-> produced], loop_seeds, draw)} :
          /\ loop_seen' = r.seen
          /\ produced' = r.examples
          /\ last_draw' = [kind |-> draw.kind, seed |-> draw.seed, prefix |-> draw.prefix,
                           input |-> v.input, output |-> v.output]
    /\ rounds' = rounds + 1
    /\ UNCHANGED <<gp, fn, aug_count, loop_seeds, notAug>>

\* lines 339-343 with no seeds: random.choice([]) raises IndexError
VariantRoundRaises ==
    /\ gp = "loop"
    /\ fn = "augment_seed_variants"
    /\ rounds < max_rounds(aug_count)
    /\ Len(produced) < aug_count
    /\ loop_seeds = <<>>
    /\ rounds' = rounds + 1
    /\ gp' = "raised"
    /\ UNCHANGED <<fn, aug_count, loop_seeds, loop_seen, produced, last_draw, notAug>>

\* lines 297-299 and 330-331, lines 339-341 and 387-388: the loop is over
\* and the list is returned
ReturnProduced ==
    /\ gp = "loop"
    /\ rounds >= max_rounds(aug_count) \/ Len(produced) >= aug_count
    /\ gp' = "returned"
    /\ UNCHANGED <<fn, aug_count, loop_seeds, rounds, loop_seen, produced, last_draw, notAug>>

NextAugment == TemplateRound \/ VariantRound \/ VariantRoundRaises \/ ReturnProduced

SpecAugment == InitAugment /\ [][NextAugment]_vars

\* a step of the running function, by its effect on position and round
\* counter: a round begins, or the loop is over and the function returns.
\* Every step of NextAugment is such a step, and one is possible exactly
\* while gp = "loop".
LoopStep ==
    /\ gp = "loop"
    /\ \/ rounds' = rounds + 1 /\ gp' \in {"loop", "raised"}
       \/ rounds' = rounds /\ gp' = "returned"

\* the interpreter runs the function's next statement: while the function
\* has not ended, it goes on
SpecAugmentFair == SpecAugment /\ WF_<<gp, rounds>>(LoopStep)

\* C14: every record augment_seed_variants has accepted has an output that
\* is_valid_branch_name accepts, that differs from the output of every seed
\* and from the output of every variant accepted before it.
C14_VariantsValidAndNew ==
    fn = "augment_seed_variants" =>
        \A i \in 1..Len(produced) :
            /\ is_valid_branch_name(produced[i].output)
            /\ produced[i].output \notin seed_outputs(loop_seeds)
            /\ \A j \in 1..(i - 1) : produced[j].output # produced[i].output

\* C14 witness: the function returned two variants, a label extended by a
\* noun and a label with a rewritten prefix, after rounds that were rejected.
C14_Witness ==
    /\ fn = "augment_seed_variants"
    /\ gp = "returned"
    /\ Len(produced) = 2
    /\ rounds > 2
    /\ produced[1].output = <<"c", "h", "o", "r", "e", "-", "d", "e", "p", "s", "-", "d", "a", "s", "h", "b", "o", "a", "r", "d">>
    /\ produced[2].output = <<"f", "e", "a", "t", "-", "d", "e", "p", "s">>

\* C15 as stated: a round that wraps the seed {"input": "Fix memory leak",
\* "output": "fix-memory-leak"} with "Please " computes the input "Please fix
\* memory leak" with the label unchanged, and the function produces that
\* record.
C15_PoliteVariantProduced ==
    (/\ fn = "augment_seed_variants"
     /\ last_draw.kind = "prepend_please"
     /\ last_draw.prefix = prefixes[1]
     /\ loop_seeds[last_draw.seed].input = LeakSeed.input
     /\ loop_seeds[last_draw.seed].output = LeakSeed.output) =>
        /\ last_draw.input = <<"P", "l", "e", "a", "s", "e", " ", "f", "i", "x", " ", "m", "e", "m", "o", "r", "y", " ", "l", "e", "a", "k">>
        /\ last_draw.output = <<"f", "i", "x", "-", "m", "e", "m", "o", "r", "y", "-", "l", "e", "a", "k">>
        /\ \E i \in 1..Len(produced) :
              /\ produced[i].input = last_draw.input
              /\ produced[i].output = last_draw.output

\* C18: augment_from_templates(count) holds at most count records, each with
\* a valid output, no two with the same output; it may return fewer than
\* count.
C18_TemplatesBoundedValidDistinct ==
    fn = "augment_from_templates" =>
        /\ Len(produced) <= aug_count
        /\ \A i \in 1..Len(produced) :
              /\ is_valid_branch_name(produced[i].output)
              /\ \A j \in 1..(i - 1) : produced[j].output # produced[i].output

\* C18 witness: the function returned fewer than count records after all of
\* its rounds, some of which drew a slug it already had.
C18_Witness ==
    /\ fn = "augment_from_templates"
    /\ gp = "returned"
    /\ aug_count = 2
    /\ Len(produced) = 1
    /\ rounds = max_rounds(aug_count)

\* C19: both functions terminate: a run begins at most 3 * count rounds (each
\* round is one set of random draws), begins none once count records are
\* accepted, and ends (by returning, or by the exception of a round).
C19_LoopsTerminate ==
    /\ [](rounds <= 3 * aug_count)
    /\ [][rounds' > rounds => Len(produced) < aug_count]_vars
    /\ <>(gp \in {"returned", "raised"})

\* C19 witness: a run that used all of its 3 * count rounds and returned.
C19_Witness ==
    /\ gp = "returned"
    /\ aug_count = 2
    /\ rounds = 6
    /\ Len(produced) < aug_count

----------------------------------------------------------------------------
(* The rephrase_verb variant over the whole of VERB_SYNONYMS.              *)

\* the seeds: for each verb of VERB_SYNONYMS a description that starts with
\* it, labelled with the verb's prefix, with another first word, or with a
\* first word that begins with the letters of the prefix ("choreography");
\* and descriptions whose first word has no synonyms
RephraseSeeds ==
    UNION {{[input  |-> Capitalize(v) \o <<" ", "t", "h", "e", " ", "A", "P", "I">>,
             output |-> p \o <<"-", "a", "p", "i">>] :
                p \in {PREFIX_MAP[v], <<"m", "i", "s", "c">>,
                       PREFIX_MAP[v] \o <<"o", "g", "r", "a", "p", "h", "y">>}} : v \in DOMAIN VERB_SYNONYMS}
    \cup {[input |-> <<"B", "u", "m", "p", " ", "t", "h", "e", " ", "A", "P", "I">>, output |-> <<"c", "h", "o", "r", "e", "-", "a", "p", "i">>],
          [input |-> <<"R", "e", "s", "o", "l", "v", "e", " ", "t", "h", "e", " ", "A", "P", "I">>, output |-> <<"f", "i", "x", "-", "a", "p", "i">>]}

RephrasePicks(seed) ==
    IF first_word_of(seed.input) \in DOMAIN VERB_SYNONYMS
    THEN 1..Len(VERB_SYNONYMS[first_word_of(seed.input)]) ELSE {1}

InitRephrase ==
    /\ rp = "input"
    /\ rseed \in RephraseSeeds
    /\ rpick \in 1..5
    /\ rpick \in RephrasePicks(rseed)
    /\ rephrased = [input |-> <<>>, output |-> <<>>]
    /\ IdleSan /\ IdleDedup /\ IdleSplitIn /\ IdleSplitOut /\ IdleMain /\ IdleApi /\ IdleSlug /\ IdleAug

\* lines 365-376 for the seed and the synonym drawn
Rephrase ==
    /\ rp = "input"
    /\ rephrased' = variant(rseed, [seed |-> 1, kind |-> "rephrase_verb", prefix |-> <<>>,
                                    phrase |-> <<>>, noun |-> <<>>, pick |-> rpick])
    /\ rp' = "done"
    /\ UNCHANGED <<rseed, rpick, notRephrase>>

NextRephrase == Rephrase

SpecRephrase == InitRephrase /\ [][NextRephrase]_vars

\* the verb the seed starts with and the synonym drawn for it
OriginalVerb == first_word_of(rseed.input)
ChosenSynonym == VERB_SYNONYMS[OriginalVerb][rpick]

\* C16 as stated: every synonym listed for a verb resolves to the category
\* prefix of that verb: by the map's own entry for the synonym, where it has
\* one, and by the lookup the round makes (first word of the synonym, else
\* the verb); so the round leaves the prefix of the label as it was.
C16_SynonymKeepsPrefix ==
    (rp = "done" /\ OriginalVerb \in DOMAIN VERB_SYNONYMS) =>
        /\ ChosenSynonym \in DOMAIN PREFIX_MAP
              => PREFIX_MAP[ChosenSynonym] = PREFIX_MAP[OriginalVerb]
        /\ new_prefix_for(OriginalVerb, ChosenSynonym) = PREFIX_MAP[OriginalVerb]
        /\ rephrased.output = rseed.output

\* C17 as stated: the round rewrites the label only when the original verb
\* and the chosen synonym both have an entry in the prefix map and the label
\* begins with the original verb's prefix, and then writes the prefix the map
\* gives for the chosen synonym in place of it; otherwise the label is
\* unchanged.
C17_RewriteBySynonymEntry ==
    (rp = "done" /\ OriginalVerb \in DOMAIN VERB_SYNONYMS) =>
        rephrased.output =
            IF /\ OriginalVerb \in DOMAIN PREFIX_MAP
               /\ ChosenSynonym \in DOMAIN PREFIX_MAP
               /\ StartsWith(rseed.output, PREFIX_MAP[OriginalVerb])
            THEN PREFIX_MAP[ChosenSynonym]
                    \o SubSeq(rseed.output, Len(PREFIX_MAP[OriginalVerb]) + 1, Len(rseed.output))
            ELSE rseed.output

----------------------------------------------------------------------------
(* Further claims about generate_with_openai (SpecApi).                    *)

\* C21: generate_with_openai issues its batches one at a time in index
\* order, batch i (from 0) for the category of index i mod len(CATEGORIES);
\* it issues at most floor(target_count / 20) + 1 batches, and none once the
\* number of accepted records has reached target_count.
C21_BatchesInOrderAndBounded ==
    /\ [](/\ Len(requested) <= (target_count \div BatchSize) + 1
          /\ \A k \in 1..Len(requested) :
                /\ requested[k].index = k - 1
                /\ requested[k].category = (k - 1) % NumCategories)
    /\ [][requested' # requested =>
            /\ Len(requested') = Len(requested) + 1
            /\ SubSeq(requested', 1, Len(requested)) = requested
            /\ Len(collected) < target_count]_vars

\* C21 witness: with target_count = 20 two batches are allowed, the first
\* reply brought 20 records, and the function returned without a second
\* request.
C21_Witness ==
    /\ ap = "returned"
    /\ target_count = BatchSize
    /\ Len(requested) = 1
    /\ Len(collected) >= target_count

\* the items generate_with_openai reads from a reply: those of the array it
\* parsed, none when the call failed or nothing was parsed
ReplyItems(reply) ==
    IF reply.kind = "array" THEN reply.items
    ELSE IF reply.kind = "text" /\ re_search(reply.text).found
    THEN json_loads_match(re_search(reply.text).group).value
    ELSE <<>>

\* the items of a reply that come before the first one that is no object or
\* has no string for output
WellTypedItems(reply) ==
    LET items == ReplyItems(reply)
        ill   == {i \in 1..Len(items) : ~IsObject(items[i]) \/ ~HasStringOutput(items[i])}
    IN  IF ill = {} THEN items ELSE SubSeq(items, 1, MinOf(ill) - 1)

ArrayParts(text) == {i \in 1..Len(text) : text[i].part = "array"}

\* C23 as stated: from a reply whose text embeds an array, the function
\* takes the first array of the text, whatever follows it (prose, further
\* closing brackets, a second array), and accepts the items of that array.
C23_FirstArrayExtracted ==
    [][(/\ Len(replies') > Len(replies)
        /\ replies'[Len(replies')].kind = "text"
        /\ ArrayParts(replies'[Len(replies')].text) # {}) =>
            \E text \in {replies'[Len(replies')].text} :
            \E first \in {text[MinOf(ArrayParts(text))].items} :
            \E r \in {accept_items([seen_outputs |-> seen_outputs, examples |-> collected],
                                   first)} :
                /\ collected' = r.examples
                /\ seen_outputs' = r.seen_outputs]_vars

\* C29: when the handling of a batch raises part-way through its items (an
\* item is no object, or its output is no string), the records accepted
\* from the items before it stay in the list and their outputs in the seen
\* set, nothing is taken from the items after it, and the loop goes on with
\* the next batch.
C29_PartialBatchKept ==
    [][(/\ Len(replies') > Len(replies)
        /\ Len(WellTypedItems(replies'[Len(replies')])) < Len(ReplyItems(replies'[Len(replies')]))) =>
            \E before \in {WellTypedItems(replies'[Len(replies')])} :
            \E offered \in {{<<before[n].input, sanitize_branch_name(before[n].output)>> :
                                n \in 1..Len(before)}} :
                /\ ap' = "loop"
                /\ batch_index' = batch_index + 1
                /\ SubSeq(collected', 1, Len(collected)) = collected
                /\ \A i \in (Len(collected) + 1)..Len(collected') :
                      <<collected'[i].input, collected'[i].output>> \in offered
                /\ \A p \in offered :
                      (/\ is_valid_branch_name(p[2])
                       /\ Len(p[1]) >= 5
                       /\ p[2] \notin seen_outputs)
                          => /\ p[2] \in seen_outputs'
                             /\ \E i \in (Len(collected) + 1)..Len(collected') :
                                   collected'[i].output = p[2]]_vars

\* C29 witness: the first batch held a good item, an item whose output is a
\* number and another good item; the record of the first item is in the
\* list, that of the third is not, and the loop goes on.
C29_Witness ==
    /\ Len(replies) = 1
    /\ Len(requested) = 1
    /\ batch_index = 1
    /\ ap = "loop"
    /\ Len(ReplyItems(replies[1])) = 3
    /\ ~HasStringOutput(ReplyItems(replies[1])[2])
    /\ Len(collected) = 1
    /\ collected[1].input = ReplyItems(replies[1])[1].input
    /\ collected[1].output = <<"f", "i", "x", "-", "b", "u", "g">>
    /\ seen_outputs = {<<"f", "i", "x", "-", "b", "u", "g">>}
    /\ is_valid_branch_name(sanitize_branch_name(ReplyItems(replies[1])[3].output))
    /\ sanitize_branch_name(ReplyItems(replies[1])[3].output) \notin seen_outputs

\* C30: an item rejected for an invalid output or for a missing or too
\* short input leaves no mark in the set of seen outputs (the set holds the
\* outputs of the accepted records and nothing else), so an item the loop
\* reaches later, with a valid output no accepted record has and an input of
\* 5 characters or more, is accepted.
C30_RejectedItemLeavesSeenAlone ==
    /\ [](seen_outputs = {collected[i].output : i \in 1..Len(collected)})
    /\ [][Len(replies') > Len(replies) =>
            \E items \in {WellTypedItems(replies'[Len(replies')])} :
            \E accepted \in {{collected[i].output : i \in 1..Len(collected)}} :
                \A n \in 1..Len(items) :
                    \E outp \in {sanitize_branch_name(items[n].output)} :
                        (/\ is_valid_branch_name(outp)
                         /\ outp \notin accepted
                         /\ Len(items[n].input) >= 5)
                            => \E i \in (Len(collected) + 1)..Len(collected') :
                                  collected'[i].output = outp]_vars

\* C30 witness: the first batch held one item without input, which was
\* rejected; the second batch held an item whose output canonicalizes to the
\* same label, and its record was accepted.
C30_Witness ==
    /\ Len(replies) = 2
    /\ Len(ReplyItems(replies[1])) = 1
    /\ ReplyItems(replies[1])[1].input = <<>>
    /\ is_valid_branch_name(ReplyItems(replies[1])[1].output)
    /\ Len(ReplyItems(replies[2])) = 1
    /\ sanitize_branch_name(ReplyItems(replies[2])[1].output) = ReplyItems(replies[1])[1].output
    /\ Len(collected) = 1
    /\ collected[1].output = ReplyItems(replies[1])[1].output

----------------------------------------------------------------------------
(* Further claims about main (SpecMain).                                   *)

\* C24 as stated: no stage changes another stage's output in place: once
\* the stage lists are returned, the list of load_seeds and the lists of the
\* generation stages keep their records, with the same input and output
\* values, through the central validation, the split and the saves.
C24_StageOutputsNotMutated ==
    [][(pc \in {"combine", "validate", "save_pool", "save_train", "save_val", "save_test"})
            => stageVars' = stageVars]_vars

\* the records of the four stages in the order of the union
StageUnion == seeds \o seed_variants \o augmented \o api_examples

\* C28: when records share an output, the pool keeps the one that comes
\* first in the order seeds, seed variants, template records, remote records:
\* right after the deduplication the list holds, for each output, exactly the
\* first record of the union with that output; and for every output of the
\* pool, the first record of the union that has this output is in the pool,
\* so a seed is never displaced by a generated or remote record.
C28_EarliestStageKept ==
    \E u \in {StageUnion} :
        /\ (pc = "validate" /\ vi = 1) =>
                Ids(all_examples) =
                    {u[j].id : j \in {k \in 1..Len(u) :
                        \A i \in 1..(k - 1) : u[i].output # u[k].output}}
        /\ pc \in {"save_pool", "save_train", "save_val", "save_test", "done"} =>
                \E kept \in {Ids(valid)} :
                    \A j \in 1..Len(u) :
                        u[j].id \in kept =>
                            \E i \in 1..j :
                                /\ u[i].output = u[j].output
                                /\ u[i].id \in kept
                                /\ \A h \in 1..(i - 1) : u[h].output # u[j].output

\* C28 witness: main finished a run in which a seed and a remote record had
\* the same output; the pool holds the seed and not the remote record.
C28_Witness ==
    /\ pc = "done"
    /\ \E i \in 1..Len(seeds) : \E j \in 1..Len(api_examples) :
          /\ seeds[i].output = api_examples[j].output
          /\ seeds[i].id \in Ids(valid)
          /\ api_examples[j].id \notin Ids(valid)
          /\ \E k \in 1..Len(files[PoolFile]) :
                /\ files[PoolFile][k].output = seeds[i].output
                /\ files[PoolFile][k].input = seeds[i].input
                /\ files[PoolFile][k].input # api_examples[j].input

----------------------------------------------------------------------------
(* Further claims about augment_seed_variants (SpecAugment, SpecRephrase). *)

FirstToken(label) ==
    LET hyphens == {i \in 1..Len(label) : label[i] = "-"}
    IN  IF hyphens = {} THEN label ELSE SubSeq(label, 1, MinOf(hyphens) - 1)

\* C27 as stated: when a synonym round changes the label, it replaced a
\* whole first token equal to the old prefix, and the first token of the new
\* label is the new prefix; the first letters of a longer word that merely
\* begins with the old prefix are never replaced.
C27_WholeTokenRewritten ==
    (rp = "done" /\ rephrased.output # rseed.output) =>
        /\ FirstToken(rseed.output) = PREFIX_MAP[OriginalVerb]
        /\ FirstToken(rephrased.output) = new_prefix_for(OriginalVerb, ChosenSynonym)

----------------------------------------------------------------------------
(* Further claim about the two pure functions (SpecSan).                   *)

\* C26 as stated: a valid label is a fixed point of the canonicalization:
\* whenever is_valid_branch_name(s) holds, sanitize_branch_name(s) is s.
C26_ValidIsFixedPoint ==
    (sp = "sanitized" /\ is_valid_branch_name(raw)) => out = raw

====
